---- MODULE Spec2Model ----
(***************************************************************************)
(* Wallet & Investment Ledger Engine of the TradePro backend.              *)
(*                                                                         *)
(* Money amounts are JavaScript Numbers (binary floating point).  They are *)
(* modelled as integer multiples of the smallest quantum in play, and      *)
(* every + and - of the source rounds its exact result to SignificandBits  *)
(* significant bits, ties to even, as IEEE-754 does with 53 bits.          *)
(***************************************************************************)
EXTENDS Integers, Sequences, FiniteSets, TLC

\* ---------------------------------------------------------------- bounds
SignificandBits == 3      \* precision of a Number in the model (53 in JS)
MaxBalance == 12          \* addFunds is not offered once the wallet holds this much
NumRequests == 2          \* requests that are served, possibly at the same time
InitialBTC == 4           \* BTC balance the wallet was funded with
InitialUSD == 4           \* USD balance the wallet was funded with
MaxNow == 15              \* half days the clock runs for

\* --------------------------------------------------------------- constants
TicksPerDay == 2          \* one day, 1000 * 60 * 60 * 24 ms, in half days
MinLockPeriod == 7        \* days before an investment can be cancelled
MinAmount == 2            \* smallest amount of an investment request: 100 USD
MinDuration == 7          \* days
MaxDuration == 720        \* days

\* ------------------------------------------------------------- arithmetic
Max(a, b) == IF a >= b THEN a ELSE b

Abs(x) == IF x < 0 THEN 0 - x ELSE x

RECURSIVE Pow2(_)
Pow2(n) == IF n <= 0 THEN 1 ELSE 2 * Pow2(n - 1)

\* the spacing (ulp) of the Numbers around magnitude m
RECURSIVE Quantum(_, _)
Quantum(m, q) == IF m < q * Pow2(SignificandBits) THEN q ELSE Quantum(m, 2 * q)

\* round-to-nearest, ties-to-even, on a magnitude
RoundMag(m) ==
  LET q   == Quantum(m, 1)
      k   == m \div q
      rem == m - k * q
  IN  IF 2 * rem < q THEN k * q
      ELSE IF 2 * rem > q THEN (k + 1) * q
      ELSE IF k % 2 = 0 THEN k * q ELSE (k + 1) * q

\* the Number nearest to the exact value x
Round(x) == IF x < 0 THEN 0 - RoundMag(0 - x) ELSE RoundMag(x)

\* JavaScript a + b and a - b on Numbers
Plus(a, b) == Round(a + b)

Minus(a, b) == Round(a - b)

IsNumber(x) == Round(x) = x

\* ----------------------------------------------- arithmetic of the rates
\* Fees, rates and returns are fractions of the amounts.  They are kept as
\* exact fractions n / d in lowest terms with d > 0, the real numbers that
\* the Number arithmetic of the code approximates to 53 bits.
RECURSIVE GCD(_, _)
GCD(a, b) == IF b = 0 THEN a ELSE GCD(b, a % b)

Rat(n, d) ==
  LET g == GCD(Abs(n), Abs(d))
      s == IF d < 0 THEN 0 - 1 ELSE 1
  IN  [n |-> s * (n \div g), d |-> s * (d \div g)]

Whole(k) == [n |-> k, d |-> 1]

Zero == Whole(0)

\* a * b, cancelling across before multiplying
Times(a, b) ==
  LET g1 == GCD(Abs(a.n), b.d)
      g2 == GCD(Abs(b.n), a.d)
  IN  Rat((a.n \div g1) * (b.n \div g2), (a.d \div g2) * (b.d \div g1))

\* a / b, b not zero
Over(a, b) == Times(a, IF b.n < 0 THEN [n |-> 0 - b.d, d |-> 0 - b.n]
                                   ELSE [n |-> b.d, d |-> b.n])

\* a + b over the least common denominator
Sum(a, b) ==
  LET g == GCD(a.d, b.d)
  IN  Rat(a.n * (b.d \div g) + b.n * (a.d \div g), (a.d \div g) * b.d)

Neg(a) == [n |-> 0 - a.n, d |-> a.d]

Diff(a, b) == Sum(a, Neg(b))

\* a < b
Less(a, b) == Diff(a, b).n < 0

\* a percentage given in hundredths of a percent: 290 is 2.9%, 0.029
Percent(bp) == Rat(bp, 10000)

\* Math.pow and the numbers it works on are kept to 8 decimal places
PowScale == 100000000

PowSplit == 10000

\* a * b of two numbers with 8 decimal places, rounded to the nearest
TimesFixed(a, b) ==
  LET a1 == a \div PowSplit
      a0 == a % PowSplit
      b1 == b \div PowSplit
      b0 == b % PowSplit
      t  == a1 * b0 + a0 * b1
  IN  a1 * b1 + (t \div PowSplit)
        + ((t % PowSplit) * PowSplit + a0 * b0 + PowScale \div 2) \div PowScale

\* Math.pow(x, k) for a whole k, by squaring
RECURSIVE PowFixed(_, _)
PowFixed(x, k) ==
  IF k = 0 THEN PowScale
  ELSE IF k % 2 = 0 THEN TimesFixed(PowFixed(x, k \div 2), PowFixed(x, k \div 2))
  ELSE TimesFixed(x, PowFixed(x, k - 1))

\* ---------------------------------------------------------------- wallet
Currencies == {"USD", "BTC", "USDT"}

\* the currencies that have a path under lockedBalances in the schema
LockedCurrencies == {"USD", "BTC"}

\* the currencies the wallet methods are called with
MethodCurrencies == {"BTC", "USDT"}

\* amounts offered to the wallet methods (all are Numbers, all positive)
MethodAmounts == {1, 8, 12}

\* a Wallet document as constructed: every balance defaults to 0
NewWallet ==
  [balances       |-> [c \in Currencies |-> 0],
   lockedBalances |-> [c \in Currencies |-> 0]]

\* what save() stores of a document: a value assigned under lockedBalances
\* to a currency without a schema path stays on the object in memory only
Persisted(w) ==
  [w EXCEPT !.lockedBalances =
     [c \in Currencies |-> IF c \in LockedCurrencies THEN @[c] ELSE 0]]

getAvailableBalance(w, currency) ==
  Max(0, Minus(w.balances[currency], w.lockedBalances[currency]))

hasSufficientFunds(w, amount, currency) ==
  getAvailableBalance(w, currency) >= amount

\* Each method returns ok = FALSE with the error it throws, or ok = TRUE
\* with the document as saved.
lockFunds(w, amount, currency) ==
  IF ~hasSufficientFunds(w, amount, currency)
  THEN [ok |-> FALSE, err |-> "Insufficient funds", w |-> w]
  ELSE [ok |-> TRUE, err |-> "",
        w |-> [w EXCEPT !.lockedBalances[currency] = Plus(@, amount)]]

unlockFunds(w, amount, currency) ==
  IF w.lockedBalances[currency] < amount
  THEN [ok |-> FALSE, err |-> "Cannot unlock more funds than are locked", w |-> w]
  ELSE [ok |-> TRUE, err |-> "",
        w |-> [w EXCEPT !.lockedBalances[currency] = Max(0, Minus(@, amount))]]

addFunds(w, amount, currency) ==
  [ok |-> TRUE, err |-> "",
   w |-> [w EXCEPT !.balances[currency] = Plus(@, amount)]]

\* deductFunds without its funds check
deductFundsUnchecked(w, amount, currency) ==
  [ok |-> TRUE, err |-> "",
   w |-> [w EXCEPT !.balances[currency] = Max(0, Minus(@, amount))]]

deductFunds(w, amount, currency) ==
  IF ~hasSufficientFunds(w, amount, currency)
  THEN [ok |-> FALSE, err |-> "Insufficient funds", w |-> w]
  ELSE [ok |-> TRUE, err |-> "",
        w |-> [w EXCEPT !.balances[currency] = Max(0, Minus(@, amount))]]

\* ---------------------------------------------------------- transactions
\* txHash values; "" stands for a Transaction without txHash
Hashes == {"h1", "h2", "h3"}

NoTx == 0

\* the users; the requests of the handlers are those of TheUser
Users == {"u1", "u2", "u3"}

TheUser == "u1"

\* the fields of a Transaction document handed to Transaction.create;
\* platformFee, failureReason, completedAt and cancelledAt take their defaults
NewTransaction(type, status, amount, currency, networkFee, netAmount, txHash) ==
  [userId |-> TheUser,
   type |-> type, status |-> status, amount |-> amount, currency |-> currency,
   networkFee |-> networkFee, platformFee |-> 0, netAmount |-> netAmount,
   txHash |-> txHash, intent |-> 0, failureReason |-> "",
   completedAt |-> FALSE, cancelledAt |-> FALSE]

\* a pre('save') that keeps the netAmount it was handed
preSaveKeep(t) == t

\* pre('save') of a document whose amount or fees are modified (they are in
\* a new document): netAmount is recomputed
preSave(t) ==
  [t EXCEPT !.netAmount = Minus(Minus(t.amount, t.networkFee), t.platformFee)]

\* an index on txHash that is not unique
HashNeverTaken(store, h, i) == FALSE

\* unique sparse index on txHash: h is held by a document other than i
HashTaken(store, h, i) ==
  /\ h # ""
  /\ \E j \in DOMAIN store : j # i /\ store[j].txHash = h

\* Transaction.create: validation, pre('save'), insert under the unique index
TransactionCreate(store, t) ==
  IF HashTaken(store, t.txHash, NoTx)
  THEN [ok |-> FALSE, err |-> "E11000 duplicate key", store |-> store]
  ELSE [ok |-> TRUE, err |-> "", store |-> Append(store, preSave(t))]

\* markAsCompleted(txHash) on document i; save writes the modified paths
markAsCompleted(store, i, txHash) ==
  IF HashTaken(store, txHash, i)
  THEN [ok |-> FALSE, err |-> "E11000 duplicate key", store |-> store]
  ELSE [ok |-> TRUE, err |-> "",
        store |-> [store EXCEPT ![i].status = "completed",
                                ![i].completedAt = TRUE,
                                ![i].txHash = IF txHash # "" THEN txHash ELSE @]]

\* markAsFailed(reason) on document i whose in-memory copy still carries the
\* txHash of a rejected markAsCompleted (pending = "" when it carries none)
markAsFailed(store, i, reason, pending) ==
  IF HashTaken(store, pending, i)
  THEN [ok |-> FALSE, err |-> "E11000 duplicate key", store |-> store]
  ELSE [ok |-> TRUE, err |-> "",
        store |-> [store EXCEPT ![i].status = "failed",
                                ![i].failureReason = reason,
                                ![i].completedAt = IF pending # "" THEN TRUE ELSE @,
                                ![i].txHash = IF pending # "" THEN pending ELSE @]]

\* markAsCancelled() on document i
markAsCancelled(store, i) ==
  [ok |-> TRUE, err |-> "",
   store |-> [store EXCEPT ![i].status = "cancelled", ![i].cancelledAt = TRUE]]

\* Math.round(amount * 100) and cents / 100, USD being counted in half cents
toCents(amount) == (amount + 1) \div 2

fromCents(cents) == 2 * cents

\* network fee of a withdrawal: 0.0005 BTC, the unit in which BTC amounts
\* are counted (withdrawals are made in BTC)
getNetworkFee(currency) == 1

\* a fee check that lets a netAmount of zero pass
amountIsNegative(netAmount) == netAmount < 0

\* if (netAmount <= 0): the amount is too small after the network fee
amountTooSmall(netAmount) == netAmount <= 0

\* ----------------------------------------------------------------- state
VARIABLES
  doc,          \* one Wallet document on which the methods are called in sequence
  last,         \* the last method call on doc: its arguments, outcome and pre-state
  stored,       \* the user has a Wallet document in the collection
  wallet,       \* the user's Wallet document as stored (as created while there is none)
  txs,          \* the stored Transaction documents, in creation order
  investments,  \* the stored Investment documents, in creation order
  reqs,         \* the requests being served: position, arguments, documents held
  now,          \* the clock that new Date() reads, in half days
  call,         \* a function of the services: its arguments and what it returned
  cache         \* the price cache of the CoinGecko client

vars == <<doc, last, stored, wallet, txs, investments, reqs, now, call, cache>>

\* no function has been applied; the price cache is empty
NoApply == [fn |-> "none"]

NoCache == [filled |-> FALSE]

\* cache.set(cacheKey, {timestamp, data}) of the one key that is asked for
CacheSet(key, timestamp, data) ==
  [filled |-> TRUE, key |-> key, timestamp |-> timestamp, data |-> data]

Requests == 1 .. NumRequests

DepositAmounts == {2}
WithdrawAmounts == {1, 2, 4}
InvestAmounts == {1, 2, 4}
RequestPlans == {"short", "long"}
InvestDurations == {6, 7}
CardAmounts == {1, 2}
FeeValues == {0, 1}
SuppliedNetAmounts == {0, 2}
WithdrawCurrencies == {"BTC"}
DepositCurrencies == {"USD"}

Idle ==
  [kind |-> "none", pc |-> "idle", amount |-> 0, currency |-> "USD",
   w |-> NewWallet, tx |-> NoTx, txHash |-> "", supplied |-> 0, err |-> "",
   lockOk |-> FALSE, unlockCalls |-> 0, unlockOks |-> 0, overlap |-> FALSE,
   plan |-> "", duration |-> 0, inv |-> 0, msg |-> "", returns |-> [status |-> "none"],
   user |-> TheUser, id |-> NoTx, code |-> 0, ids |-> {}, prices |-> <<>>]

\* some other request is being served
InFlight(r) == \E q \in Requests \ {r} : reqs[q].pc \notin {"idle", "done"}

Begin(r, kind, amount, currency) ==
  [Idle EXCEPT !.kind = kind, !.amount = amount, !.currency = currency,
               !.w = wallet, !.overlap = InFlight(r)]

\* request slots are taken in order
Free(r) ==
  /\ reqs[r].pc = "idle"
  /\ \A q \in Requests : q < r => reqs[q].pc # "idle"

\* the request ends; the documents it held are dropped
Finish(q, err) == [q EXCEPT !.pc = "done", !.err = err, !.w = NewWallet]

\* save() writes the paths the request modified on its copy of the wallet
saveBalance(w, currency) == [wallet EXCEPT !.balances[currency] = w.balances[currency]]

saveLocked(w, currency) ==
  [wallet EXCEPT !.lockedBalances[currency] = Persisted(w).lockedBalances[currency]]

\* --------------------------------------------- wallet methods, one document
NoCall == [op |-> "none", amount |-> 0, currency |-> "USD", ok |-> TRUE,
           pre |-> NewWallet, afterLock |-> FALSE, lockPre |-> NewWallet]

\* last call was a successful lockFunds(amount, currency)
JustLocked(amount, currency) ==
  /\ last.op = "lockFunds"
  /\ last.ok
  /\ last.amount = amount
  /\ last.currency = currency

Call(op, r, amount, currency) ==
  /\ doc' = r.w
  /\ last' = [op |-> op, amount |-> amount, currency |-> currency, ok |-> r.ok,
              pre |-> doc,
              afterLock |-> (op = "unlockFunds" /\ JustLocked(amount, currency)),
              lockPre |-> IF op = "unlockFunds" /\ JustLocked(amount, currency)
                          THEN last.pre ELSE NewWallet]
  /\ UNCHANGED <<call, cache, now, stored, wallet, txs, investments, reqs>>

AddFunds ==
  \E amount \in MethodAmounts, currency \in MethodCurrencies :
    /\ doc.balances["BTC"] + doc.balances["USDT"] + amount <= MaxBalance
    /\ Call("addFunds", addFunds(doc, amount, currency), amount, currency)

DeductFunds ==
  \E amount \in MethodAmounts, currency \in MethodCurrencies :
    Call("deductFunds", deductFunds(doc, amount, currency), amount, currency)

LockFunds ==
  \E amount \in MethodAmounts, currency \in MethodCurrencies :
    Call("lockFunds", lockFunds(doc, amount, currency), amount, currency)

UnlockFunds ==
  \E amount \in MethodAmounts, currency \in MethodCurrencies :
    Call("unlockFunds", unlockFunds(doc, amount, currency), amount, currency)

\* Wallet.findOne: the document is loaded again as it was saved
FindOne ==
  /\ doc' = Persisted(doc)
  /\ last' = [NoCall EXCEPT !.op = "findOne", !.pre = doc]
  /\ UNCHANGED <<call, cache, now, stored, wallet, txs, investments, reqs>>

WalletInit ==
  /\ doc = NewWallet
  /\ last = NoCall
  /\ stored = TRUE
  /\ now = 0
  /\ call = NoApply
  /\ cache = NoCache
  /\ wallet = NewWallet
  /\ txs = <<>>
  /\ investments = <<>>
  /\ reqs = [r \in Requests |-> Idle]

WalletNext == AddFunds \/ DeductFunds \/ LockFunds \/ UnlockFunds \/ FindOne

\* method calls in any order on one Wallet document, loaded again at times
SpecWallet == WalletInit /\ [][WalletNext]_vars

\* -------------------------------------------------- walletController.deposit
\* find the wallet, create the pending Transaction, answer 202
DepositStart(r) ==
  /\ Free(r)
  /\ \E amount \in DepositAmounts, currency \in DepositCurrencies :
       LET c == TransactionCreate(txs,
                  NewTransaction("deposit", "pending", amount, currency, 0, amount, ""))
       IN  /\ txs' = c.store
           /\ reqs' = [reqs EXCEPT ![r] =
                [Begin(r, "deposit", amount, currency) EXCEPT
                   !.pc = "dep_credit", !.tx = Len(c.store)]]
  /\ stored' = TRUE
  /\ UNCHANGED <<call, cache, now, doc, last, wallet, investments>>

\* the timer fires: wallet.addFunds on the copy found at the start
DepositCredit(r) ==
  LET q == reqs[r]
      a == addFunds(q.w, q.amount, q.currency)
  IN  /\ q.pc = "dep_credit"
      /\ wallet' = saveBalance(a.w, q.currency)
      /\ reqs' = [reqs EXCEPT ![r] = [q EXCEPT !.w = a.w, !.pc = "dep_complete"]]
      /\ UNCHANGED <<call, cache, now, stored, doc, last, txs, investments>>

DepositComplete(r) ==
  LET q == reqs[r]
      m == markAsCompleted(txs, q.tx, "")
  IN  /\ q.pc = "dep_complete"
      /\ txs' = m.store
      /\ reqs' = [reqs EXCEPT ![r] = Finish(q, "")]
      /\ UNCHANGED <<call, cache, now, stored, doc, last, wallet, investments>>

\* ------------------------------------------------- walletController.withdraw
\* find the wallet, check funds and fee, create the pending Transaction
WithdrawStart(r) ==
  /\ Free(r)
  /\ \E amount \in WithdrawAmounts, currency \in WithdrawCurrencies :
       LET q          == Begin(r, "withdraw", amount, currency)
           networkFee == getNetworkFee(currency)
           netAmount  == Minus(amount, networkFee)
           c == TransactionCreate(txs,
                  NewTransaction("withdrawal", "pending", amount, currency,
                                 networkFee, netAmount, ""))
       IN  IF ~stored
           THEN /\ reqs' = [reqs EXCEPT ![r] = Finish(q, "Wallet not found")]
                /\ txs' = txs
           ELSE IF ~hasSufficientFunds(q.w, amount, currency)
           THEN /\ reqs' = [reqs EXCEPT ![r] = Finish(q, "Insufficient funds")]
                /\ txs' = txs
           ELSE IF amountTooSmall(netAmount)
           THEN /\ reqs' = [reqs EXCEPT ![r] =
                              Finish(q, "Amount too small after network fees")]
                /\ txs' = txs
           ELSE /\ txs' = c.store
                /\ reqs' = [reqs EXCEPT ![r] =
                              [q EXCEPT !.pc = "wd_lock", !.tx = Len(c.store)]]
  /\ UNCHANGED <<call, cache, now, stored, doc, last, wallet, investments>>

\* wallet.lockFunds, then 202 and the timer is set
WithdrawLock(r) ==
  LET q == reqs[r]
      l == lockFunds(q.w, q.amount, q.currency)
  IN  /\ q.pc = "wd_lock"
      /\ IF l.ok
         THEN /\ wallet' = saveLocked(l.w, q.currency)
              /\ reqs' = [reqs EXCEPT ![r] =
                            [q EXCEPT !.w = l.w, !.lockOk = TRUE, !.pc = "wd_deduct"]]
         ELSE /\ wallet' = wallet
              /\ reqs' = [reqs EXCEPT ![r] = Finish(q, "Failed to initiate withdrawal")]
      /\ UNCHANGED <<call, cache, now, stored, doc, last, txs, investments>>

\* the timer fires: wallet.deductFunds on the copy that holds the lock
WithdrawDeduct(r) ==
  LET q == reqs[r]
      d == deductFunds(q.w, q.amount, q.currency)
  IN  /\ q.pc = "wd_deduct"
      /\ IF d.ok
         THEN /\ wallet' = saveBalance(d.w, q.currency)
              /\ reqs' = [reqs EXCEPT ![r] = [q EXCEPT !.w = d.w, !.pc = "wd_unlock"]]
         ELSE /\ wallet' = wallet
              /\ reqs' = [reqs EXCEPT ![r] = [q EXCEPT !.pc = "wd_failed", !.err = d.err]]
      /\ UNCHANGED <<call, cache, now, stored, doc, last, txs, investments>>

WithdrawUnlock(r) ==
  LET q == reqs[r]
      u == unlockFunds(q.w, q.amount, q.currency)
  IN  /\ q.pc = "wd_unlock"
      /\ IF u.ok
         THEN /\ wallet' = saveLocked(u.w, q.currency)
              /\ reqs' = [reqs EXCEPT ![r] =
                            [q EXCEPT !.w = u.w, !.pc = "wd_complete",
                                      !.unlockCalls = @ + 1, !.unlockOks = @ + 1]]
         ELSE /\ wallet' = wallet
              /\ reqs' = [reqs EXCEPT ![r] =
                            [q EXCEPT !.pc = "wd_failed", !.err = u.err,
                                      !.unlockCalls = @ + 1]]
      /\ UNCHANGED <<call, cache, now, stored, doc, last, txs, investments>>

\* transaction.markAsCompleted with the hash Math.random produced
WithdrawComplete(r) ==
  /\ reqs[r].pc = "wd_complete"
  /\ \E txHash \in Hashes :
       LET q == reqs[r]
           m == markAsCompleted(txs, q.tx, txHash)
       IN  /\ txs' = m.store
           /\ reqs' = [reqs EXCEPT ![r] =
                IF m.ok THEN Finish(q, "")
                ELSE [q EXCEPT !.pc = "wd_failed", !.err = m.err, !.txHash = txHash]]
  /\ UNCHANGED <<call, cache, now, stored, doc, last, wallet, investments>>

\* catch of the timer: transaction.markAsFailed
WithdrawMarkFailed(r) ==
  LET q == reqs[r]
      m == markAsFailed(txs, q.tx, "Processing error", q.txHash)
  IN  /\ q.pc = "wd_failed"
      /\ txs' = m.store
      /\ reqs' = [reqs EXCEPT ![r] =
           IF m.ok THEN [q EXCEPT !.pc = "wd_release"] ELSE Finish(q, m.err)]
      /\ UNCHANGED <<call, cache, now, stored, doc, last, wallet, investments>>

\* catch of the timer: wallet.unlockFunds; the error stays logged
WithdrawRelease(r) ==
  LET q == reqs[r]
      u == unlockFunds(q.w, q.amount, q.currency)
  IN  /\ q.pc = "wd_release"
      /\ wallet' = IF u.ok THEN saveLocked(u.w, q.currency) ELSE wallet
      /\ reqs' = [reqs EXCEPT ![r] =
           Finish([q EXCEPT !.unlockCalls = @ + 1,
                            !.unlockOks = IF u.ok THEN @ + 1 ELSE @],
                  q.err)]
      /\ UNCHANGED <<call, cache, now, stored, doc, last, txs, investments>>

\* --------------------------------- PaymentService.processCryptoWithdrawal
\* find the wallet, check funds and fee; every throw goes to the catch
CryptoWithdrawalStart(r) ==
  /\ Free(r)
  /\ \E amount \in WithdrawAmounts, currency \in WithdrawCurrencies :
       LET q         == Begin(r, "cryptoWithdrawal", amount, currency)
           netAmount == Minus(amount, getNetworkFee(currency))
       IN  reqs' = [reqs EXCEPT ![r] =
             IF ~stored
             THEN [q EXCEPT !.pc = "cw_catch", !.err = "Wallet not found"]
             ELSE IF ~hasSufficientFunds(q.w, amount, currency)
             THEN [q EXCEPT !.pc = "cw_catch", !.err = "Insufficient funds"]
             ELSE IF amountTooSmall(netAmount)
             THEN [q EXCEPT !.pc = "cw_catch",
                            !.err = "Amount too small after network fees"]
             ELSE [q EXCEPT !.pc = "cw_lock"]]
  /\ UNCHANGED <<call, cache, now, stored, doc, last, wallet, txs, investments>>

CryptoWithdrawalLock(r) ==
  LET q == reqs[r]
      l == lockFunds(q.w, q.amount, q.currency)
  IN  /\ q.pc = "cw_lock"
      /\ IF l.ok
         THEN /\ wallet' = saveLocked(l.w, q.currency)
              /\ reqs' = [reqs EXCEPT ![r] =
                            [q EXCEPT !.w = l.w, !.lockOk = TRUE, !.pc = "cw_create"]]
         ELSE /\ wallet' = wallet
              /\ reqs' = [reqs EXCEPT ![r] = [q EXCEPT !.pc = "cw_catch", !.err = l.err]]
      /\ UNCHANGED <<call, cache, now, stored, doc, last, txs, investments>>

CryptoWithdrawalCreate(r) ==
  LET q          == reqs[r]
      networkFee == getNetworkFee(q.currency)
      c == TransactionCreate(txs,
             NewTransaction("withdrawal", "pending", q.amount, q.currency,
                            networkFee, Minus(q.amount, networkFee), ""))
  IN  /\ q.pc = "cw_create"
      /\ txs' = c.store
      /\ reqs' = [reqs EXCEPT ![r] = [q EXCEPT !.pc = "cw_send", !.tx = Len(c.store)]]
      /\ UNCHANGED <<call, cache, now, stored, doc, last, wallet, investments>>

\* sendCryptoTransaction answers a hash or null (""), then wallet.deductFunds
CryptoWithdrawalSend(r) ==
  /\ reqs[r].pc = "cw_send"
  /\ \E txHash \in Hashes \cup {""} :
       LET q == reqs[r]
           d == deductFunds(q.w, q.amount, q.currency)
       IN  IF txHash = ""
           THEN /\ wallet' = wallet
                /\ reqs' = [reqs EXCEPT ![r] =
                              [q EXCEPT !.pc = "cw_catch", !.err = "Transaction failed"]]
           ELSE IF ~d.ok
           THEN /\ wallet' = wallet
                /\ reqs' = [reqs EXCEPT ![r] = [q EXCEPT !.pc = "cw_catch", !.err = d.err]]
           ELSE /\ wallet' = saveBalance(d.w, q.currency)
                /\ reqs' = [reqs EXCEPT ![r] =
                              [q EXCEPT !.w = d.w, !.txHash = txHash, !.pc = "cw_unlock"]]
  /\ UNCHANGED <<call, cache, now, stored, doc, last, txs, investments>>

CryptoWithdrawalUnlock(r) ==
  LET q == reqs[r]
      u == unlockFunds(q.w, q.amount, q.currency)
  IN  /\ q.pc = "cw_unlock"
      /\ IF u.ok
         THEN /\ wallet' = saveLocked(u.w, q.currency)
              /\ reqs' = [reqs EXCEPT ![r] =
                            [q EXCEPT !.w = u.w, !.pc = "cw_complete",
                                      !.unlockCalls = @ + 1, !.unlockOks = @ + 1]]
         ELSE /\ wallet' = wallet
              /\ reqs' = [reqs EXCEPT ![r] =
                            [q EXCEPT !.pc = "cw_catch", !.err = u.err,
                                      !.unlockCalls = @ + 1]]
      /\ UNCHANGED <<call, cache, now, stored, doc, last, txs, investments>>

CryptoWithdrawalComplete(r) ==
  LET q == reqs[r]
      m == markAsCompleted(txs, q.tx, q.txHash)
  IN  /\ q.pc = "cw_complete"
      /\ txs' = m.store
      /\ reqs' = [reqs EXCEPT ![r] =
           IF m.ok THEN Finish(q, "") ELSE [q EXCEPT !.pc = "cw_catch", !.err = m.err]]
      /\ UNCHANGED <<call, cache, now, stored, doc, last, wallet, investments>>

\* catch: the wallet is found again
CryptoWithdrawalCatchFind(r) ==
  LET q == reqs[r]
  IN  /\ q.pc = "cw_catch"
      /\ reqs' = [reqs EXCEPT ![r] = [q EXCEPT !.w = wallet, !.pc = "cw_catch_unlock"]]
      /\ UNCHANGED <<call, cache, now, stored, doc, last, wallet, txs, investments>>

\* catch: wallet.unlockFunds, its own failure only logged; the error is rethrown
CryptoWithdrawalCatchUnlock(r) ==
  LET q == reqs[r]
      u == unlockFunds(q.w, q.amount, q.currency)
  IN  /\ q.pc = "cw_catch_unlock"
      /\ wallet' = IF stored /\ u.ok THEN saveLocked(u.w, q.currency) ELSE wallet
      /\ reqs' = [reqs EXCEPT ![r] =
           IF ~stored THEN Finish(q, q.err)
           ELSE Finish([q EXCEPT !.unlockCalls = @ + 1,
                                 !.unlockOks = IF u.ok THEN @ + 1 ELSE @],
                       q.err)]
      /\ UNCHANGED <<call, cache, now, stored, doc, last, txs, investments>>

\* --------------------------------------------------------- createInvestment
\* Amounts of an investment are counted in units of 50 USD: the minimum of
\* the request validation, 100, is 2; the plan minimums 100, 500 and 1000
\* are 2, 10 and 20.
Plans == {"short", "mid", "long"}

minInvestment(plan) ==
  CASE plan = "short" -> 2
    [] plan = "mid" -> 10
    [] plan = "long" -> 20

\* validate(investmentValidation), the middleware in front of createInvestment
investmentValidation(plan, amount, duration) ==
  /\ plan \in Plans
  /\ amount >= MinAmount
  /\ duration >= MinDuration
  /\ duration <= MaxDuration

\* a new Investment document: active, started now, ending duration days later
NewInvestment(plan, amount, duration, tx, date) ==
  [plan |-> plan, amount |-> amount, duration |-> duration, status |-> "active",
   tx |-> tx, startDate |-> date, endDate |-> date + duration * TicksPerDay,
   isCompounding |-> FALSE, compoundingFrequency |-> "none",
   actualProfit |-> Zero, actualReturnRate |-> Zero, managementFeeAmount |-> Zero,
   performanceFeeAmount |-> Zero, totalFees |-> Zero, netAmount |-> Zero,
   notes |-> ""]

\* investment.amount as a Number: the amount of a request is counted in the
\* units of the ledger, that of a reinvestment is the netAmount it was given
investmentAmount(inv) == IF inv.notes = "" THEN Whole(inv.amount) ELSE inv.amount

\* investment.cancel(reason)
InvestmentCancel(inv) == [inv EXCEPT !.status = "cancelled"]

\* investment.markAsCompleted()
InvestmentMarkAsCompleted(inv) == [inv EXCEPT !.status = "completed"]

CreateInvestmentStart(r) ==
  /\ Free(r)
  /\ \E plan \in RequestPlans, amount \in InvestAmounts, duration \in InvestDurations :
       LET q == [Begin(r, "createInvestment", amount, "USD")
                   EXCEPT !.plan = plan, !.duration = duration]
           c == TransactionCreate(txs,
                  NewTransaction("investment", "completed", amount, "USD", 0, amount, ""))
       IN  IF ~investmentValidation(plan, amount, duration)
           THEN /\ reqs' = [reqs EXCEPT ![r] = Finish(q, "Validation failed")]
                /\ txs' = txs
           ELSE IF ~stored
           THEN /\ reqs' = [reqs EXCEPT ![r] = Finish(q, "Wallet not found")]
                /\ txs' = txs
           ELSE IF ~hasSufficientFunds(q.w, amount, "USD")
           THEN /\ reqs' = [reqs EXCEPT ![r] = Finish(q, "Insufficient funds")]
                /\ txs' = txs
           ELSE /\ txs' = c.store
                /\ reqs' = [reqs EXCEPT ![r] =
                              [q EXCEPT !.pc = "ci_lock", !.tx = Len(c.store)]]
  /\ UNCHANGED <<call, cache, now, stored, doc, last, wallet, investments>>

CreateInvestmentLock(r) ==
  LET q == reqs[r]
      l == lockFunds(q.w, q.amount, "USD")
  IN  /\ q.pc = "ci_lock"
      /\ IF l.ok
         THEN /\ wallet' = saveLocked(l.w, "USD")
              /\ reqs' = [reqs EXCEPT ![r] =
                            [q EXCEPT !.w = l.w, !.lockOk = TRUE, !.pc = "ci_create"]]
         ELSE /\ wallet' = wallet
              /\ reqs' = [reqs EXCEPT ![r] = Finish(q, "Failed to create investment")]
      /\ UNCHANGED <<call, cache, now, stored, doc, last, txs, investments>>

\* Investment.create stores the document or rejects it; the catch answers 500
CreateInvestmentCreate(r) ==
  /\ reqs[r].pc = "ci_create"
  /\ \E created \in BOOLEAN :
       LET q == reqs[r]
       IN  IF created
           THEN /\ investments' = Append(investments,
                     NewInvestment(q.plan, q.amount, q.duration, q.tx, now))
                /\ reqs' = [reqs EXCEPT ![r] =
                              Finish([q EXCEPT !.inv = Len(investments) + 1], "")]
           ELSE /\ investments' = investments
                /\ reqs' = [reqs EXCEPT ![r] = Finish(q, "Failed to create investment")]
  /\ UNCHANGED <<call, cache, now, stored, doc, last, wallet, txs>>

\* --------------------------------------------------------- cancelInvestment
\* an id the collection may or may not hold
InvestmentIds == 1 .. (Len(investments) + 1)

\* Investment.findOne / findById: the document, when it is stored
Found(id) == id \in DOMAIN investments

\* Math.floor((new Date() - startDate) / one day)
daysInvested(date, startDate) == (date - startDate) \div TicksPerDay

\* a lock period that ends a day early
lockPeriodShort(days) == days + 1 < MinLockPeriod

lockPeriodActive(days) == days < MinLockPeriod

\* x * num / den in the arithmetic of the ledger: the nearest number
Scale(x, num, den) == Round((2 * x * num + den) \div (2 * den))

\* investment.amount * 0.01
cancellationFee(amount) == Scale(amount, 1, 100)

refundAmount(amount) == Minus(amount, cancellationFee(amount))

\* Investment.findOne({_id, userId, status: 'active'}), then the lock period
CancelInvestmentStart(r) ==
  /\ Free(r)
  /\ \E id \in InvestmentIds :
       LET q == [Begin(r, "cancelInvestment", 0, "USD") EXCEPT !.inv = id]
       IN  /\ reqs' = [reqs EXCEPT ![r] =
                IF ~Found(id) \/ investments[id].status # "active"
                THEN Finish(q, "Active investment not found")
                ELSE IF lockPeriodActive(daysInvested(now, investments[id].startDate))
                THEN Finish([q EXCEPT !.amount = investments[id].amount],
                            "Investments can only be cancelled after 7 days")
                ELSE [q EXCEPT !.amount = investments[id].amount, !.pc = "cn_cancel"]]
  /\ UNCHANGED <<call, cache, now, stored, doc, last, wallet, txs, investments>>

\* await investment.cancel('User requested cancellation')
CancelInvestmentCancel(r) ==
  LET q == reqs[r]
  IN  /\ q.pc = "cn_cancel"
      /\ investments' = [investments EXCEPT ![q.inv] = InvestmentCancel(@)]
      /\ reqs' = [reqs EXCEPT ![r] = [q EXCEPT !.pc = "cn_find"]]
      /\ UNCHANGED <<call, cache, now, stored, doc, last, wallet, txs>>

\* Wallet.findOne; without a wallet the ledger is left alone
CancelInvestmentFind(r) ==
  LET q == reqs[r]
  IN  /\ q.pc = "cn_find"
      /\ reqs' = [reqs EXCEPT ![r] =
           IF stored THEN [q EXCEPT !.w = wallet, !.pc = "cn_unlock"]
                     ELSE [q EXCEPT !.pc = "cn_tx"]]
      /\ UNCHANGED <<call, cache, now, stored, doc, last, wallet, txs, investments>>

\* await wallet.unlockFunds(investment.amount, 'USD')
CancelInvestmentUnlock(r) ==
  LET q == reqs[r]
      u == unlockFunds(q.w, q.amount, "USD")
  IN  /\ q.pc = "cn_unlock"
      /\ IF u.ok
         THEN /\ wallet' = saveLocked(u.w, "USD")
              /\ reqs' = [reqs EXCEPT ![r] =
                   [q EXCEPT !.w = u.w, !.unlockCalls = 1, !.unlockOks = 1,
                             !.pc = "cn_add"]]
         ELSE /\ wallet' = wallet
              /\ reqs' = [reqs EXCEPT ![r] =
                   Finish([q EXCEPT !.unlockCalls = 1], "Failed to cancel investment")]
      /\ UNCHANGED <<call, cache, now, stored, doc, last, txs, investments>>

\* await wallet.addFunds(refundAmount, 'USD')
CancelInvestmentAdd(r) ==
  LET q == reqs[r]
      a == addFunds(q.w, refundAmount(q.amount), "USD")
  IN  /\ q.pc = "cn_add"
      /\ wallet' = saveBalance(a.w, "USD")
      /\ reqs' = [reqs EXCEPT ![r] = [q EXCEPT !.w = a.w, !.pc = "cn_tx"]]
      /\ UNCHANGED <<call, cache, now, stored, doc, last, txs, investments>>

\* Transaction.create of the refund, type 'withdrawal', status 'completed'
CancelInvestmentRecord(r) ==
  LET q == reqs[r]
      c == TransactionCreate(txs,
             NewTransaction("withdrawal", "completed", refundAmount(q.amount), "USD",
                            0, refundAmount(q.amount), ""))
  IN  /\ q.pc = "cn_tx"
      /\ txs' = c.store
      /\ reqs' = [reqs EXCEPT ![r] = Finish([q EXCEPT !.tx = Len(c.store)], "")]
      /\ UNCHANGED <<call, cache, now, stored, doc, last, wallet, investments>>

\* ------------------------------------------------------- accrual engine
\* INVESTMENT_PLANS[planKey] || INVESTMENT_PLANS.MID_TERM
planManagementFee(plan) ==
  CASE plan = "short" -> Percent(150)
    [] plan = "long" -> Percent(75)
    [] OTHER -> Percent(100)

planPerformanceFee(plan) ==
  CASE plan = "short" -> Percent(1000)
    [] plan = "long" -> Percent(1500)
    [] OTHER -> Percent(1200)

\* a base rate that is the default 10% for every plan
baseAnnualRateDefault(plan) == Percent(1000)

\* switch (investment.plan)
baseAnnualRate(plan) ==
  CASE plan = "short" -> Percent(800)
    [] plan = "mid" -> Percent(1200)
    [] plan = "long" -> Percent(1500)
    [] OTHER -> Percent(1000)

CompoundingFrequencies == {"daily", "weekly", "monthly", "quarterly"}

\* switch (frequency): n
periodsPerYear(frequency) ==
  CASE frequency = "daily" -> 365
    [] frequency = "weekly" -> 52
    [] frequency = "monthly" -> 12
    [] frequency = "quarterly" -> 4

\* a fraction as a number with 8 decimal places, and back with 6
ToFixed(a) == (a.n * PowScale + a.d \div 2) \div a.d

FromFixed(f) == Rat((f + 50) \div 100, PowScale \div 100)

\* compounding that is handed back as simple interest
calculateSimpleReturns(principal, annualRate, days, frequency) ==
  Times(principal, Sum(Whole(1), Over(Times(annualRate, Whole(days)), Whole(365))))

\* principal * Math.pow(1 + annualRate / n, n * (days / 365)); the days that
\* are drawn make n * days / 365 whole
calculateCompoundedReturns(principal, annualRate, days, frequency) ==
  IF frequency \notin CompoundingFrequencies
  THEN Times(principal, Sum(Whole(1), Over(Times(annualRate, Whole(days)), Whole(365))))
  ELSE LET n == periodsPerYear(frequency)
           ratePerPeriod == ToFixed(Over(annualRate, Whole(n)))
           periods == (n * days) \div 365
       IN  Times(principal, FromFixed(PowFixed(PowScale + ratePerPeriod, periods)))

\* the moves of the simulated market, in thousandths: (Math.random() - 0.5) * 2 * 0.001
MarketMoves == {0 - 1, 0, 1}

\* getMarketPerformance: Math.max(0.8, 1 + days * 0.0005 + move)
getMarketPerformance(days, move) ==
  LET performance == Sum(Sum(Whole(1), Times(Whole(days), Rat(5, 10000))), Rat(move, 1000))
  IN  IF Less(performance, Rat(8, 10)) THEN Rat(8, 10) ELSE performance

\* a value that is undefined
Undefined == [n |-> 0, d |-> 0]

\* a document that has no plan: investment.plan.toUpperCase() throws
NoPlan == ""

\* the catch of calculateInvestmentReturns: the basic calculation
fallbackReturns(inv) ==
  [expectedProfit |-> Undefined, currentProfit |-> Zero, currentValue |-> investmentAmount(inv),
   managementFee |-> Undefined, performanceFee |-> Undefined, totalFees |-> Undefined,
   netValue |-> investmentAmount(inv), roi |-> Zero, status |-> "calculation_error"]

\* calculateInvestmentReturns(investment, isSimulation) at the time date,
\* with the market moving by move
calculateInvestmentReturns(inv, isSimulation, date, move) ==
  IF inv.plan = NoPlan THEN fallbackReturns(inv)
  ELSE
  LET amount == investmentAmount(inv)
      startDate == IF isSimulation THEN date ELSE inv.startDate
      daysElapsed == (date - startDate) \div TicksPerDay
      rate == baseAnnualRate(inv.plan)
      periodRate == Over(Times(rate, Whole(inv.duration)), Whole(365))
      expectedProfit ==
        IF inv.isCompounding /\ inv.compoundingFrequency # "none"
        THEN Diff(calculateCompoundedReturns(amount, rate, inv.duration,
                                             inv.compoundingFrequency), amount)
        ELSE Times(amount, periodRate)
      managementFee ==
        Times(Times(amount, Over(planManagementFee(inv.plan), Whole(365))),
              Whole(inv.duration))
      currentProfit ==
        IF isSimulation
        THEN Times(amount, Over(Times(rate, Whole(daysElapsed)), Whole(365)))
        ELSE IF inv.status = "active"
        THEN Times(amount, Times(periodRate, getMarketPerformance(daysElapsed, move)))
        ELSE IF inv.status = "completed" THEN inv.actualProfit
        ELSE Zero
      currentValue ==
        IF ~isSimulation /\ inv.status = "completed" /\ inv.netAmount # Zero
        THEN inv.netAmount
        ELSE Sum(amount, currentProfit)
      performanceFee ==
        IF Less(Zero, currentProfit)
        THEN Times(currentProfit, planPerformanceFee(inv.plan)) ELSE Zero
      totalFees == Sum(managementFee, performanceFee)
  IN  [expectedProfit |-> expectedProfit, currentProfit |-> currentProfit,
       currentValue |-> currentValue, managementFee |-> managementFee,
       performanceFee |-> performanceFee, totalFees |-> totalFees,
       netValue |-> Diff(currentValue, totalFees),
       roi |-> Times(Over(Diff(currentProfit, totalFees), amount), Whole(100)),
       status |-> inv.status]

\* the documents the accrual engine is applied to
AccrualPlans == {"short", "mid", "long", "flex", NoPlan}

AccrualDocs ==
  {[NewInvestment(plan, amount, duration, NoTx, 0)
      EXCEPT !.isCompounding = c[1], !.compoundingFrequency = c[2]] :
     plan \in AccrualPlans, amount \in {100, 500, 1000}, duration \in {7, 365, 720},
     c \in {<<FALSE, "none">>, <<FALSE, "monthly">>}}
  \cup
  {[NewInvestment(plan, amount, 365, NoTx, 0)
      EXCEPT !.isCompounding = TRUE, !.compoundingFrequency = f] :
     plan \in AccrualPlans, amount \in {100, 500, 1000},
     f \in CompoundingFrequencies \cup {"none"}}

\* one application of calculateInvestmentReturns to a drawn document
CalculateInvestmentReturns ==
  /\ call.fn = "input"
  /\ \E isSimulation \in BOOLEAN, move \in MarketMoves :
       call' = [fn |-> "calculateInvestmentReturns", inv |-> call.inv,
                isSimulation |-> isSimulation,
                returns |-> calculateInvestmentReturns(call.inv, isSimulation, now, move)]
  /\ UNCHANGED <<cache, now, stored, doc, last, wallet, txs, investments, reqs>>

AccrualInit ==
  /\ doc = NewWallet
  /\ last = NoCall
  /\ wallet = NewWallet
  /\ stored = FALSE
  /\ now \in {0, MinLockPeriod * TicksPerDay}
  /\ call \in {[fn |-> "input", inv |-> d] : d \in AccrualDocs}
  /\ cache = NoCache
  /\ txs = <<>>
  /\ investments = <<>>
  /\ reqs = [r \in Requests |-> Idle]

SpecAccrual == AccrualInit /\ [][CalculateInvestmentReturns]_vars

\* ------------------------------------------------- processInvestmentMaturity
\* new Date() < investment.endDate
notYetMatured(date, endDate) == date < endDate

\* !investment || investment.status !== 'active'
notFoundOrNotActive(id) == ~Found(id) \/ investments[id].status # "active"

\* a path that is assigned undefined is not stored and reads as its default
Stored(v) == IF v = Undefined THEN Zero ELSE v

\* the final values are assigned and markAsCompleted saves the document:
\* the modified paths are written
completeWith(inv, returns) ==
  [InvestmentMarkAsCompleted(inv) EXCEPT
     !.actualProfit = Stored(returns.currentProfit),
     !.actualReturnRate = Stored(returns.roi),
     !.performanceFeeAmount = Stored(returns.performanceFee),
     !.totalFees = Stored(returns.totalFees),
     !.netAmount = Stored(returns.netValue)]

\* Investment.findById, the status check and the maturity check; then
\* calculateInvestmentReturns runs up to its await
ProcessInvestmentMaturityStart(r) ==
  /\ Free(r)
  /\ \E id \in InvestmentIds, move \in MarketMoves :
       LET q == [Begin(r, "processInvestmentMaturity", 0, "USD") EXCEPT !.inv = id]
       IN  /\ reqs' = [reqs EXCEPT ![r] =
                IF notFoundOrNotActive(id)
                THEN Finish(q, "Investment not found or not active")
                ELSE IF notYetMatured(now, investments[id].endDate)
                THEN Finish([q EXCEPT !.msg = "Investment has not yet matured"], "")
                ELSE [q EXCEPT !.amount = investments[id].amount,
                               !.returns = calculateInvestmentReturns(
                                             investments[id], FALSE, now, move),
                               !.pc = "pm_returns"]]
  /\ UNCHANGED <<call, cache, now, stored, doc, last, wallet, txs, investments>>

\* await calculateInvestmentReturns(investment) hands the returns back
ProcessInvestmentMaturityReturns(r) ==
  LET q == reqs[r]
  IN  /\ q.pc = "pm_returns"
      /\ reqs' = [reqs EXCEPT ![r] = [q EXCEPT !.pc = "pm_complete"]]
      /\ UNCHANGED <<call, cache, now, stored, doc, last, wallet, txs, investments>>

\* the final values are assigned; await investment.markAsCompleted(); the
\* result reports processed: true
ProcessInvestmentMaturityComplete(r) ==
  LET q == reqs[r]
  IN  /\ q.pc = "pm_complete"
      /\ investments' = [investments EXCEPT ![q.inv] = completeWith(@, q.returns)]
      /\ reqs' = [reqs EXCEPT ![r] = Finish([q EXCEPT !.msg = "processed"], "")]
      /\ UNCHANGED <<call, cache, now, stored, doc, last, wallet, txs>>

\* autoReinvest(investmentId): Investment.findById, the status check, then
\* Investment.create with the netAmount of the completed investment; the
\* wallet is not touched
AutoReinvest(r) ==
  /\ Free(r)
  /\ \E id \in InvestmentIds :
       LET q == [Begin(r, "autoReinvest", 0, "USD") EXCEPT !.inv = id]
       IN  IF ~Found(id) \/ investments[id].status # "completed"
           THEN /\ reqs' = [reqs EXCEPT ![r] =
                     Finish(q, "Investment not found or not completed")]
                /\ investments' = investments
           ELSE /\ reqs' = [reqs EXCEPT ![r] = Finish(q, "")]
                /\ investments' = Append(investments,
                     [NewInvestment(investments[id].plan, investments[id].netAmount,
                                    investments[id].duration, investments[id].tx, now)
                        EXCEPT !.isCompounding = investments[id].isCompounding,
                               !.compoundingFrequency = investments[id].compoundingFrequency,
                               !.notes = "Auto-reinvestment"])
  /\ UNCHANGED <<call, cache, now, stored, doc, last, wallet, txs>>

\* half a day passes
Tick ==
  /\ now < MaxNow
  /\ now' = now + 1
  /\ UNCHANGED <<call, cache, stored, doc, last, wallet, txs, investments, reqs>>

\* ------------------------------------------------------------ specification
\* the wallet as funded by one completed crypto deposit and one completed
\* USD deposit, with one credit card deposit pending; no request is served
FundedWallet ==
  [NewWallet EXCEPT !.balances["BTC"] = InitialBTC, !.balances["USD"] = InitialUSD]

FundingTxs ==
  << [NewTransaction("deposit", "completed", InitialBTC, "BTC", 0, InitialBTC, "h1")
        EXCEPT !.completedAt = TRUE],
     [NewTransaction("deposit", "completed", InitialUSD, "USD", 0, InitialUSD, "")
        EXCEPT !.completedAt = TRUE] >>

\* a credit card deposit waiting for the gateway's confirmation
PendingCardDeposit ==
  [NewTransaction("deposit", "pending", 1, "USD", 0, 1, "") EXCEPT !.intent = 3]

Init ==
  /\ doc = NewWallet
  /\ last = NoCall
  /\ wallet = FundedWallet
  /\ stored = TRUE
  /\ now = 0
  /\ call = NoApply
  /\ cache = NoCache
  /\ txs = Append(FundingTxs, PendingCardDeposit)
  /\ investments = <<>>
  /\ reqs = [r \in Requests |-> Idle]

Next ==
  \E r \in Requests :
    \/ DepositStart(r)
    \/ DepositCredit(r)
    \/ DepositComplete(r)
    \/ WithdrawStart(r)
    \/ WithdrawLock(r)
    \/ WithdrawDeduct(r)
    \/ WithdrawUnlock(r)
    \/ WithdrawComplete(r)
    \/ WithdrawMarkFailed(r)
    \/ WithdrawRelease(r)
    \/ CryptoWithdrawalStart(r)
    \/ CryptoWithdrawalLock(r)
    \/ CryptoWithdrawalCreate(r)
    \/ CryptoWithdrawalSend(r)
    \/ CryptoWithdrawalUnlock(r)
    \/ CryptoWithdrawalComplete(r)
    \/ CryptoWithdrawalCatchFind(r)
    \/ CryptoWithdrawalCatchUnlock(r)
    \/ CreateInvestmentStart(r)
    \/ CreateInvestmentLock(r)
    \/ CreateInvestmentCreate(r)

Spec == Init /\ [][Next]_vars

\* ------------------------------------------- investments, specification
\* the wallet and the collections after one investment of 2 in the short
\* plan for 7 days, made at time 0 from the funded wallet
InvestedWallet == [FundedWallet EXCEPT !.lockedBalances["USD"] = 2]

InvestmentTx == NewTransaction("investment", "completed", 2, "USD", 0, 2, "")

InvestInit ==
  /\ doc = NewWallet
  /\ last = NoCall
  /\ wallet = InvestedWallet
  /\ stored = TRUE
  /\ now = 0
  /\ call = NoApply
  /\ cache = NoCache
  /\ txs = Append(FundingTxs, InvestmentTx)
  /\ investments = << NewInvestment("short", 2, 7, Len(FundingTxs) + 1, 0) >>
  /\ reqs = [r \in Requests |-> Idle]

NextInvest ==
  \/ Tick
  \/ \E r \in Requests :
       \/ CreateInvestmentStart(r)
       \/ CreateInvestmentLock(r)
       \/ CreateInvestmentCreate(r)
       \/ CancelInvestmentStart(r)
       \/ CancelInvestmentCancel(r)
       \/ CancelInvestmentFind(r)
       \/ CancelInvestmentUnlock(r)
       \/ CancelInvestmentAdd(r)
       \/ CancelInvestmentRecord(r)
       \/ ProcessInvestmentMaturityStart(r)
       \/ ProcessInvestmentMaturityReturns(r)
       \/ ProcessInvestmentMaturityComplete(r)

SpecInvest == InvestInit /\ [][NextInvest]_vars

\* the same state, the investment stored with or without a plan, and the
\* requests that end an investment
MaturityInit ==
  /\ doc = NewWallet
  /\ last = NoCall
  /\ wallet = InvestedWallet
  /\ stored = TRUE
  /\ now = 0
  /\ call = NoApply
  /\ cache = NoCache
  /\ txs = Append(FundingTxs, InvestmentTx)
  /\ \E plan \in {"short", NoPlan} :
       investments = << NewInvestment(plan, 2, 7, Len(FundingTxs) + 1, 0) >>
  /\ reqs = [r \in Requests |-> Idle]

NextMaturity ==
  \/ Tick
  \/ \E r \in Requests :
       \/ CancelInvestmentStart(r)
       \/ CancelInvestmentCancel(r)
       \/ CancelInvestmentFind(r)
       \/ CancelInvestmentUnlock(r)
       \/ CancelInvestmentAdd(r)
       \/ CancelInvestmentRecord(r)
       \/ ProcessInvestmentMaturityStart(r)
       \/ ProcessInvestmentMaturityReturns(r)
       \/ ProcessInvestmentMaturityComplete(r)

SpecMaturity == MaturityInit /\ [][NextMaturity]_vars

\* an investment that matures and is reinvested
NextReinvest ==
  \/ Tick
  \/ \E r \in Requests :
       \/ ProcessInvestmentMaturityStart(r)
       \/ ProcessInvestmentMaturityReturns(r)
       \/ ProcessInvestmentMaturityComplete(r)
       \/ AutoReinvest(r)

SpecReinvest == InvestInit /\ [][NextReinvest]_vars

\* the two withdrawal flows alone
NextWithdraw ==
  \E r \in Requests :
    \/ WithdrawStart(r)
    \/ WithdrawLock(r)
    \/ WithdrawDeduct(r)
    \/ WithdrawUnlock(r)
    \/ WithdrawComplete(r)
    \/ WithdrawMarkFailed(r)
    \/ WithdrawRelease(r)
    \/ CryptoWithdrawalStart(r)
    \/ CryptoWithdrawalLock(r)
    \/ CryptoWithdrawalCreate(r)
    \/ CryptoWithdrawalSend(r)
    \/ CryptoWithdrawalUnlock(r)
    \/ CryptoWithdrawalComplete(r)
    \/ CryptoWithdrawalCatchFind(r)
    \/ CryptoWithdrawalCatchUnlock(r)

SpecWithdraw == Init /\ [][NextWithdraw]_vars

\* every await that has resolved is resumed and every timer that is due
\* fires: a step that stays possible is taken
SpecWithdrawFair == SpecWithdraw /\ WF_vars(NextWithdraw)

\* ------------------------------------- PaymentService, deposits and webhook
\* processCreditCardDeposit: payment intent, then the pending Transaction
CardDepositStart(r) ==
  /\ Free(r)
  /\ \E amount \in CardAmounts :
       LET c == TransactionCreate(txs,
                  [NewTransaction("deposit", "pending", amount, "USD", 0, amount, "")
                     EXCEPT !.intent = Len(txs) + 1])
       IN  /\ txs' = c.store
           /\ reqs' = [reqs EXCEPT ![r] =
                Finish([Begin(r, "cardDeposit", amount, "USD") EXCEPT !.tx = Len(c.store)],
                       "")]
  /\ UNCHANGED <<call, cache, now, stored, doc, last, wallet, investments>>

\* handleStripeWebhook, payment_intent.succeeded: confirmCreditCardPayment
\* retrieves the intent, finds its Transaction and the wallet
ConfirmPaymentStart(r) ==
  /\ Free(r)
  /\ \E i \in DOMAIN txs :
       /\ txs[i].intent # 0
       /\ reqs' = [reqs EXCEPT ![r] =
            [Begin(r, "confirmPayment", fromCents(toCents(txs[i].amount)), "USD")
               EXCEPT !.tx = i, !.pc = "cp_credit"]]
  /\ stored' = TRUE
  /\ UNCHANGED <<call, cache, now, doc, last, wallet, txs, investments>>

ConfirmPaymentCredit(r) ==
  LET q == reqs[r]
      a == addFunds(q.w, q.amount, q.currency)
  IN  /\ q.pc = "cp_credit"
      /\ wallet' = saveBalance(a.w, q.currency)
      /\ reqs' = [reqs EXCEPT ![r] = [q EXCEPT !.w = a.w, !.pc = "cp_complete"]]
      /\ UNCHANGED <<call, cache, now, stored, doc, last, txs, investments>>

ConfirmPaymentComplete(r) ==
  LET q == reqs[r]
      m == markAsCompleted(txs, q.tx, "")
  IN  /\ q.pc = "cp_complete"
      /\ txs' = m.store
      /\ reqs' = [reqs EXCEPT ![r] = Finish(q, "")]
      /\ UNCHANGED <<call, cache, now, stored, doc, last, wallet, investments>>

\* handleStripeWebhook, payment_intent.payment_failed: Transaction.updateOne
WebhookFailed(r) ==
  /\ Free(r)
  /\ \E i \in DOMAIN txs :
       /\ txs[i].intent # 0
       /\ txs' = [txs EXCEPT ![i].status = "failed"]
       /\ reqs' = [reqs EXCEPT ![r] =
            Finish([Begin(r, "webhookFailed", 0, "USD") EXCEPT !.tx = i], "")]
  /\ UNCHANGED <<call, cache, now, stored, doc, last, wallet, investments>>

\* processCryptoDeposit: the transaction is verified, the wallet is found
CryptoDepositStart(r) ==
  /\ Free(r)
  /\ \E amount \in DepositAmounts, txHash \in Hashes :
       reqs' = [reqs EXCEPT ![r] =
         [Begin(r, "cryptoDeposit", amount, "BTC")
            EXCEPT !.txHash = txHash, !.pc = "cd_credit"]]
  /\ stored' = TRUE
  /\ UNCHANGED <<call, cache, now, doc, last, wallet, txs, investments>>

CryptoDepositCredit(r) ==
  LET q == reqs[r]
      a == addFunds(q.w, q.amount, q.currency)
  IN  /\ q.pc = "cd_credit"
      /\ wallet' = saveBalance(a.w, q.currency)
      /\ reqs' = [reqs EXCEPT ![r] = [q EXCEPT !.w = a.w, !.pc = "cd_create"]]
      /\ UNCHANGED <<call, cache, now, stored, doc, last, txs, investments>>

\* the completed Transaction is created with the txHash; a throw is rethrown
CryptoDepositCreate(r) ==
  LET q == reqs[r]
      c == TransactionCreate(txs,
             NewTransaction("deposit", "completed", q.amount, q.currency, 0,
                            q.amount, q.txHash))
  IN  /\ q.pc = "cd_create"
      /\ txs' = c.store
      /\ reqs' = [reqs EXCEPT ![r] =
           IF c.ok THEN Finish([q EXCEPT !.tx = Len(c.store)], "") ELSE Finish(q, c.err)]
      /\ UNCHANGED <<call, cache, now, stored, doc, last, wallet, investments>>

\* the deposits that wait for the payment gateway: the controller's deposit
\* and the credit card deposit with its webhook events
NextDeposit ==
  \E r \in Requests :
    \/ DepositStart(r)
    \/ DepositCredit(r)
    \/ DepositComplete(r)
    \/ CardDepositStart(r)
    \/ ConfirmPaymentStart(r)
    \/ ConfirmPaymentCredit(r)
    \/ ConfirmPaymentComplete(r)
    \/ WebhookFailed(r)

SpecDeposit == Init /\ [][NextDeposit]_vars

\* ------------------------------------------------------- wallet access
\* getWallet: 404 when the user has no Wallet document, else 200 with it
GetWallet(r) ==
  /\ Free(r)
  /\ reqs' = [reqs EXCEPT ![r] =
       IF ~stored
       THEN Finish(Begin(r, "getWallet", 0, "USD"), "Wallet not found")
       ELSE [Begin(r, "getWallet", 0, "USD") EXCEPT !.pc = "done"]]
  /\ UNCHANGED <<call, cache, now, stored, doc, last, wallet, txs, investments>>

\* a user without a Wallet document yet, or the funded wallet
AccessInit ==
  /\ doc = NewWallet
  /\ last = NoCall
  /\ stored \in BOOLEAN
  /\ now = 0
  /\ call = NoApply
  /\ cache = NoCache
  /\ wallet = IF stored THEN FundedWallet ELSE NewWallet
  /\ txs = IF stored THEN FundingTxs ELSE <<>>
  /\ investments = <<>>
  /\ reqs = [r \in Requests |-> Idle]

NextAccess ==
  \E r \in Requests :
    \/ GetWallet(r)
    \/ DepositStart(r)
    \/ DepositCredit(r)
    \/ DepositComplete(r)
    \/ CryptoDepositStart(r)
    \/ CryptoDepositCredit(r)
    \/ CryptoDepositCreate(r)

\* the first accesses of a user to the wallet
SpecAccess == AccessInit /\ [][NextAccess]_vars

\* ------------------------------------- Transaction model, called directly
\* Transaction.create with any amount, fees, netAmount and txHash
TransactionCreateCall(r) ==
  /\ Free(r)
  /\ \E amount \in DepositAmounts, networkFee \in FeeValues, platformFee \in FeeValues,
        netAmount \in SuppliedNetAmounts, txHash \in Hashes \cup {""} :
       LET c == TransactionCreate(txs,
                  [NewTransaction("deposit", "pending", amount, "BTC", networkFee,
                                  netAmount, txHash)
                     EXCEPT !.platformFee = platformFee])
           q == [Begin(r, "create", amount, "BTC")
                   EXCEPT !.txHash = txHash, !.supplied = netAmount]
       IN  /\ txs' = c.store
           /\ reqs' = [reqs EXCEPT ![r] =
                IF c.ok THEN Finish([q EXCEPT !.tx = Len(c.store)], "")
                ELSE Finish(q, c.err)]
  /\ UNCHANGED <<call, cache, now, stored, doc, last, wallet, investments>>

\* a found document gets another networkFee and is saved
TransactionSetFee(r) ==
  /\ Free(r)
  /\ \E i \in DOMAIN txs, networkFee \in FeeValues :
       /\ txs' = [txs EXCEPT ![i] =
            IF networkFee = @.networkFee THEN @
            ELSE preSave([@ EXCEPT !.networkFee = networkFee])]
       /\ reqs' = [reqs EXCEPT ![r] =
            Finish([Begin(r, "setFee", networkFee, txs[i].currency) EXCEPT !.tx = i], "")]
  /\ UNCHANGED <<call, cache, now, stored, doc, last, wallet, investments>>

\* markAsCompleted(txHash), markAsFailed(reason) or markAsCancelled() on a
\* found document
TransactionMark(r) ==
  /\ Free(r)
  /\ \E i \in DOMAIN txs, txHash \in Hashes \cup {""},
        method \in {"markAsCompleted", "markAsFailed", "markAsCancelled"} :
       LET m == IF method = "markAsCompleted" THEN markAsCompleted(txs, i, txHash)
                ELSE IF method = "markAsFailed" THEN markAsFailed(txs, i, "failed", "")
                ELSE markAsCancelled(txs, i)
       IN  /\ method # "markAsCompleted" => txHash = ""
           /\ txs' = m.store
           /\ reqs' = [reqs EXCEPT ![r] =
                Finish([Begin(r, method, 0, txs[i].currency)
                          EXCEPT !.tx = i, !.txHash = txHash], m.err)]
  /\ UNCHANGED <<call, cache, now, stored, doc, last, wallet, investments>>

NextTx ==
  \E r \in Requests :
    \/ CardDepositStart(r)
    \/ ConfirmPaymentStart(r)
    \/ ConfirmPaymentCredit(r)
    \/ ConfirmPaymentComplete(r)
    \/ WebhookFailed(r)
    \/ CryptoDepositStart(r)
    \/ CryptoDepositCredit(r)
    \/ CryptoDepositCreate(r)
    \/ TransactionCreateCall(r)
    \/ TransactionSetFee(r)
    \/ TransactionMark(r)

\* the life of the Transaction documents: gateway deposits, webhook events,
\* crypto deposits and direct calls of the model
SpecTx == Init /\ [][NextTx]_vars

\* ------------------------------------------ walletController.getTransaction
\* req.params.id can be cast to an ObjectId
isObjectId(id) == id # NoTx

\* a query that leaves the owner out
TransactionFindById(store, id, userId) ==
  IF id \in DOMAIN store THEN id ELSE NoTx

\* Transaction.findOne({_id: id, userId: userId}): the document, or none
TransactionFindOne(store, id, userId) ==
  IF id \in DOMAIN store /\ store[id].userId = userId THEN id ELSE NoTx

\* getTransaction of a user for an id: that of a stored document, one that
\* no document has, or a string that is no ObjectId, the cast error of which
\* is caught and answered with 500
GetTransaction(r) ==
  /\ Free(r)
  /\ \E user \in Users, id \in 0 .. Len(txs) + 1 :
       LET q == [Begin(r, "getTransaction", 0, "USD") EXCEPT !.user = user, !.id = id]
           transaction == TransactionFindOne(txs, id, user)
       IN  reqs' = [reqs EXCEPT ![r] =
             IF ~isObjectId(id)
             THEN [Finish(q, "Failed to fetch transaction") EXCEPT !.code = 500]
             ELSE IF transaction = NoTx
             THEN [Finish(q, "Transaction not found") EXCEPT !.code = 404]
             ELSE [Finish(q, "") EXCEPT !.code = 200, !.tx = transaction]]
  /\ UNCHANGED <<call, cache, now, stored, doc, last, wallet, txs, investments>>

\* three stored transactions, each of any of the users
ReadInit ==
  /\ doc = NewWallet
  /\ last = NoCall
  /\ stored = TRUE
  /\ now = 0
  /\ call = NoApply
  /\ cache = NoCache
  /\ wallet = FundedWallet
  /\ txs \in {[i \in 1 .. 3 |->
                [NewTransaction("deposit", "completed", 2, "USD", 0, 2, "")
                   EXCEPT !.userId = owner[i]]] : owner \in [1 .. 3 -> Users]}
  /\ investments = <<>>
  /\ reqs = [r \in Requests |-> Idle]

SpecRead == ReadInit /\ [][\E r \in Requests : GetTransaction(r)]_vars

\* -------------------------------------------------- coingecko.getCryptoPrices
\* fallbackData: the usd price of each coin
fallbackData ==
  ("bitcoin" :> [usd |-> 45000]) @@ ("ethereum" :> [usd |-> 3000])
    @@ ("tether" :> [usd |-> 1]) @@ ("usd-coin" :> [usd |-> 1])

\* response.data of the price feed when it answers
feedData(ids) == [id \in ids |-> [usd |-> 44000]]

\* getFallbackPrices(ids, vs_currencies)
getFallbackPrices(ids) ==
  [id \in ids \cap DOMAIN fallbackData |-> fallbackData[id]]

\* a catch that throws the error of the feed on
rethrow(ids) == [err |-> "Request failed", prices |-> <<>>]

\* the catch of getCryptoPrices
catch(ids) == [err |-> "", prices |-> getFallbackPrices(ids)]

\* cached && Date.now() - cached.timestamp < CACHE_DURATION: soon is whether
\* less than a minute has passed, which the clock of half days leaves open
\* when the entry was set in this half day or the one before
cacheHit(ids, date, soon) ==
  /\ cache.filled
  /\ cache.key = ids
  /\ date - cache.timestamp <= 1
  /\ soon

\* getCryptoPrices(ids) for one of four lists of ids (vs_currencies is
\* 'usd'): the cache is looked up; on a miss the feed is asked
GetCryptoPricesStart(r) ==
  /\ Free(r)
  /\ \E ids \in {{"bitcoin"}, {"bitcoin", "ethereum"}, {"dogecoin"},
                 {"bitcoin", "dogecoin"}},
        soon \in BOOLEAN :
       LET q == [Begin(r, "getCryptoPrices", 0, "USD") EXCEPT !.ids = ids]
       IN  reqs' = [reqs EXCEPT ![r] =
             IF cacheHit(ids, now, soon)
             THEN [Finish(q, "") EXCEPT !.prices = cache.data, !.msg = "cached"]
             ELSE [q EXCEPT !.pc = "gp_feed"]]
  /\ UNCHANGED <<call, cache, now, stored, doc, last, wallet, txs, investments>>

\* the feed answers and the answer is cached, or the call fails and is caught
GetCryptoPricesFeed(r) ==
  /\ reqs[r].pc = "gp_feed"
  /\ \E answered \in BOOLEAN :
       IF answered
       THEN /\ cache' = CacheSet(reqs[r].ids, now, feedData(reqs[r].ids))
            /\ reqs' = [reqs EXCEPT ![r] =
                 [Finish(@, "") EXCEPT !.prices = feedData(reqs[r].ids), !.msg = "fetched"]]
       ELSE /\ cache' = cache
            /\ reqs' = [reqs EXCEPT ![r] =
                 [Finish(@, catch(reqs[r].ids).err)
                    EXCEPT !.prices = catch(reqs[r].ids).prices, !.msg = "failed"]]
  /\ UNCHANGED <<call, now, stored, doc, last, wallet, txs, investments>>

PricesInit ==
  /\ doc = NewWallet
  /\ last = NoCall
  /\ stored = FALSE
  /\ now = 0
  /\ call = NoApply
  /\ cache = NoCache
  /\ wallet = NewWallet
  /\ txs = <<>>
  /\ investments = <<>>
  /\ reqs = [r \in Requests |-> Idle]

NextPrices ==
  \/ Tick
  \/ \E r \in Requests :
       \/ GetCryptoPricesStart(r)
       \/ GetCryptoPricesFeed(r)

SpecPrices == PricesInit /\ [][NextPrices]_vars

\* ------------------------------------- cryptoService.calculateTransactionFee
\* feeRates[type][method]; Undefined where the table has no entry
feeRates(type, method) ==
  CASE type = "deposit" /\ method = "credit_card" -> Percent(290)
    [] type = "deposit" /\ method = "bank_transfer" -> Percent(100)
    [] type = "deposit" /\ method = "crypto" -> Percent(10)
    [] type = "withdrawal" /\ method = "bank_transfer" -> Percent(200)
    [] type = "withdrawal" /\ method = "crypto" -> Percent(50)
    [] OTHER -> Undefined

\* networkFees[currency]
networkFees(currency) ==
  CASE currency = "BTC" -> Rat(5, 10000)
    [] currency = "ETH" -> Rat(5, 1000)
    [] currency = "USDT" -> Whole(1)
    [] currency = "USDC" -> Whole(1)
    [] OTHER -> Undefined

\* x || y
OrElse(v, default) == IF v = Undefined \/ v = Zero THEN default ELSE v

\* the method the fee is computed for: the function takes none
defaultMethod(type) == IF type = "withdrawal" THEN "bank_transfer" ELSE "credit_card"

\* a net amount that leaves the network fee out
calculateTransactionFeeGross(amount, currency, type) ==
  LET platformFee ==
        IF type \in {"deposit", "withdrawal"}
        THEN Times(amount, OrElse(feeRates(type, defaultMethod(type)), Percent(200)))
        ELSE Zero
      networkFee ==
        IF currency \in {"BTC", "ETH", "USDT", "USDC"}
        THEN OrElse(networkFees(currency), Rat(1, 1000)) ELSE Zero
  IN  [platformFee |-> platformFee, networkFee |-> networkFee,
       totalFee |-> Sum(platformFee, networkFee),
       netAmount |-> Diff(amount, platformFee)]

calculateTransactionFee(amount, currency, type) ==
  LET platformFee ==
        IF type \in {"deposit", "withdrawal"}
        THEN Times(amount, OrElse(feeRates(type, defaultMethod(type)), Percent(200)))
        ELSE Zero
      networkFee ==
        IF currency \in {"BTC", "ETH", "USDT", "USDC"}
        THEN OrElse(networkFees(currency), Rat(1, 1000)) ELSE Zero
  IN  [platformFee |-> platformFee, networkFee |-> networkFee,
       totalFee |-> Sum(platformFee, networkFee),
       netAmount |-> Diff(amount, Sum(platformFee, networkFee))]

\* the fee of one operation is asked for, once and then once more; the
\* method of the operation is known to the caller only
CalculateTransactionFee ==
  /\ call.fn = "calculateTransactionFee"
  /\ Len(call.fees) < 2
  /\ call' = [call EXCEPT !.fees =
                Append(@, calculateTransactionFee(call.amount, call.currency, call.type))]
  /\ UNCHANGED <<cache, now, stored, doc, last, wallet, txs, investments, reqs>>

FeeInit ==
  /\ doc = NewWallet
  /\ last = NoCall
  /\ wallet = NewWallet
  /\ stored = FALSE
  /\ now = 0
  /\ call \in {[fn |-> "calculateTransactionFee", amount |-> a, currency |-> c,
                type |-> t, method |-> m, fees |-> <<>>] :
                 a \in {Rat(1, 2), Whole(100), Whole(1000)},
                 c \in {"BTC", "ETH", "USDT", "USDC", "USD", "EUR"},
                 t \in {"deposit", "withdrawal", "transfer", "investment"},
                 m \in {"credit_card", "bank_transfer", "crypto", "paypal"}}
  /\ cache = NoCache
  /\ txs = <<>>
  /\ investments = <<>>
  /\ reqs = [r \in Requests |-> Idle]

SpecFee == FeeInit /\ [][CalculateTransactionFee]_vars

\* ------------------------------------------------------ request claims
Withdrawals == {"withdraw", "cryptoWithdrawal"}

Done(r) == reqs[r].pc = "done"

Succeeded(r) == Done(r) /\ reqs[r].err = ""

Failed(r) == Done(r) /\ reqs[r].err # ""

\* no request is being served
Settled == \A r \in Requests : reqs[r].pc \in {"idle", "done"}

\* request r is the only one that was ever started
Alone(r) == \A q \in Requests \ {r} : reqs[q].pc = "idle"

RECURSIVE SumAmounts(_, _, _, _)
\* the amounts of the first n Transactions of a type, in a currency, completed
SumAmounts(n, type, currency, store) ==
  IF n = 0 THEN 0
  ELSE SumAmounts(n - 1, type, currency, store)
       + (IF /\ store[n].type = type
             /\ store[n].currency = currency
             /\ store[n].status = "completed"
          THEN store[n].amount ELSE 0)

Completed(type, currency) == SumAmounts(Len(txs), type, currency, txs)

\* C2: two withdrawals of the same currency served at the same time, each
\* within the spendable balance and above the network fee, together above
\* the spendable balance: exactly one succeeds, the other fails with
\* "Insufficient funds", the balance stays >= 0 and at most the spendable
\* balance is paid out.
C2_ConcurrentWithdrawals ==
  \A r1, r2 \in Requests :
    ( /\ r1 < r2
      /\ \A q \in Requests \ {r1, r2} : reqs[q].pc = "idle"
      /\ reqs[r1].kind \in Withdrawals /\ reqs[r2].kind \in Withdrawals
      /\ Done(r1) /\ Done(r2)
      /\ reqs[r2].overlap
      /\ reqs[r1].currency = "BTC" /\ reqs[r2].currency = "BTC"
      /\ reqs[r1].amount > getNetworkFee("BTC") /\ reqs[r1].amount <= InitialBTC
      /\ reqs[r2].amount > getNetworkFee("BTC") /\ reqs[r2].amount <= InitialBTC
      /\ reqs[r1].amount + reqs[r2].amount > InitialBTC )
    => /\ \/ Succeeded(r1) /\ reqs[r2].err = "Insufficient funds"
          \/ Succeeded(r2) /\ reqs[r1].err = "Insufficient funds"
       /\ wallet.balances["BTC"] >= 0
       /\ Completed("withdrawal", "BTC") <= InitialBTC

\* C3: once every deposit and withdrawal flow has settled (none of them hit
\* a txHash collision), the balance of every currency is its completed
\* deposits minus its completed withdrawals and no BTC is locked, as if the
\* flows had run one at a time.
C3_SerializedLedger ==
  ( /\ Settled
    /\ \A r \in Requests : reqs[r].err # "E11000 duplicate key" )
  => /\ \A c \in Currencies :
          wallet.balances[c] = Completed("deposit", c) - Completed("withdrawal", c)
     /\ wallet.lockedBalances["BTC"] = 0

\* C4: a withdrawal (either flow) that ends with an error after its
\* lockFunds(amount) succeeded has run unlockFunds(amount), and once every
\* request has returned none of its amount is left in locked.
C4_CompensatingUnlock ==
  \A r \in Requests :
    (reqs[r].kind \in Withdrawals /\ Failed(r) /\ reqs[r].lockOk)
    => /\ reqs[r].unlockCalls >= 1
       /\ Settled => wallet.lockedBalances[reqs[r].currency] = 0

\* C5: when createInvestment has returned, either it succeeded and the
\* amount is locked, its Transaction and its active Investment exist, or it
\* failed and it left no Transaction and no lock behind.
C5_CreateInvestmentAtomic ==
  \A r \in Requests :
    (reqs[r].kind = "createInvestment" /\ Done(r))
    => IF reqs[r].err = ""
       THEN /\ reqs[r].lockOk
            /\ reqs[r].tx # NoTx
            /\ \E i \in DOMAIN investments :
                 investments[i].tx = reqs[r].tx /\ investments[i].status = "active"
       ELSE /\ reqs[r].tx = NoTx
            /\ ~reqs[r].lockOk
            /\ Alone(r) => wallet.lockedBalances["USD"] = 0

\* request r is a withdrawal of an amount that the network fee uses up
FeeUsesUp(q) ==
  /\ q.kind \in Withdrawals
  /\ Minus(q.amount, getNetworkFee(q.currency)) <= 0

Confirmed(i) ==
  \E r \in Requests : reqs[r].kind = "confirmPayment" /\ reqs[r].tx = i

\* the gateway's fail event for Transaction i has arrived
Refused(i) ==
  \E r \in Requests : reqs[r].kind = "webhookFailed" /\ reqs[r].tx = i

\* C14: a deposit Transaction that was pending is completed only after the
\* gateway's success event for it, the wallet's USD balance grows only after
\* a success event, and a deposit for which the fail event arrived is failed
\* and is not credited.
C14_CreditOnConfirmation ==
  /\ \A i \in DOMAIN txs :
       /\ (i >= Len(FundingTxs) + 1 /\ txs[i].type = "deposit"
             /\ txs[i].status = "completed") => Confirmed(i)
       /\ Refused(i) => (txs[i].status = "failed" /\ ~Confirmed(i))
  /\ wallet.balances["USD"] # InitialUSD => \E i \in DOMAIN txs : Confirmed(i)

\* C15: getWallet answers with success and the user then has a Wallet
\* document, with zero balances if there was none before; and a Wallet
\* document that exists is never removed.
C15_GetWalletCreates ==
  /\ [](\A r \in Requests :
          reqs[r].kind = "getWallet" =>
            /\ reqs[r].err = ""
            /\ stored
            /\ reqs[r].w \in {NewWallet, wallet})
  /\ [][stored => stored']_vars

\* ----------------------------------------------------- withdrawal claims
\* the withdrawal of request r has passed the checks of funds and fee
Accepted(r) ==
  /\ reqs[r].kind \in Withdrawals
  /\ reqs[r].pc \in {"wd_lock", "cw_lock"}

\* the withdrawal ended with its Transaction completed, the balance lower by
\* its amount and nothing locked, on the wallet as it was funded
PaidOut(r) ==
  /\ Succeeded(r)
  /\ reqs[r].tx # NoTx
  /\ txs[reqs[r].tx].status = "completed"
  /\ wallet.balances[reqs[r].currency] = Minus(InitialBTC, reqs[r].amount)
  /\ wallet.lockedBalances[reqs[r].currency] = 0

\* the blockchain refused the transfer, or the hash drawn for it was taken
Unlucky(r) == reqs[r].err \in {"Transaction failed", "E11000 duplicate key"}

\* C31: a withdrawal that is accepted, of an amount within the spendable
\* balance, and that no other operation interferes with, eventually ends
\* with its Transaction completed, the balance decreased by its amount and
\* the locked balance back where it was (unless the blockchain refuses it).
C31_WithdrawalPaysOut ==
  /\ \A r \in Requests : (Accepted(r) /\ Alone(r)) ~> (Done(r) \/ ~Alone(r))
  /\ [](\A r \in Requests :
          (reqs[r].kind \in Withdrawals /\ reqs[r].lockOk /\ Done(r) /\ Alone(r))
          => (PaidOut(r) \/ Unlucky(r)))

\* the withdrawal of request q was turned down before it locked anything
RejectedUnlocked(q) ==
  /\ q.kind \in Withdrawals
  /\ ~q.lockOk
  /\ q.err \in {"Wallet not found", "Insufficient funds",
                "Amount too small after network fees"}

\* C32: a withdrawal that is rejected before it has locked funds of its own
\* (no wallet, insufficient funds, amount too small) leaves the balances and
\* the locked balances of the wallet as they were, the amounts locked by
\* other requests included.
C32_RejectionChangesNothing ==
  [][\A r \in Requests :
       (RejectedUnlocked(reqs'[r]) /\ reqs'[r] # reqs[r]) => wallet' = wallet]_vars

\* the successful unlockFunds calls a withdrawal may make: one if it locked
OwnLocks(q) == IF q.lockOk THEN 1 ELSE 0

\* C33: the balance is lower by the amount of a withdrawal exactly if the
\* Transaction of that withdrawal ended completed: once the withdrawals have
\* ended (none of them on a txHash that was taken), the balance is the
\* funded balance less the completed withdrawals, and a withdrawal that
\* failed has released no lock but its own.
C33_DeductedIffCompleted ==
  ( /\ Settled
    /\ \A r \in Requests : reqs[r].err # "E11000 duplicate key" )
  => /\ wallet.balances["BTC"] = InitialBTC - Completed("withdrawal", "BTC")
     /\ \A r \in Requests :
          (reqs[r].kind \in Withdrawals /\ Failed(r))
          => reqs[r].unlockOks <= OwnLocks(reqs[r])

\* the Transaction of the withdrawal of request r is no longer pending
Closed(r) == txs[reqs[r].tx].status \in {"completed", "failed", "cancelled"}

\* C34: the Transaction that a withdrawal created as pending eventually
\* reaches a terminal status: when the withdrawal has ended, however it
\* ended (but for a txHash that was taken), its Transaction is completed or
\* failed, never still pending.
C34_NeverLeftPending ==
  /\ \A r \in Requests :
       (reqs[r].kind \in Withdrawals /\ reqs[r].tx # NoTx) ~> Done(r)
  /\ [](\A r \in Requests :
          ( /\ reqs[r].kind \in Withdrawals
            /\ reqs[r].tx # NoTx
            /\ Done(r)
            /\ reqs[r].err # "E11000 duplicate key" ) => Closed(r))

\* ------------------------------------------------------- deposit claims
\* the confirmation served by request q has called wallet.addFunds
Credited(q) == q.kind = "confirmPayment" /\ q.pc \in {"cp_complete", "done"}

\* C35: a deposit Transaction credits the wallet at most once: of the
\* payment_intent.succeeded confirmations delivered for one Transaction, one
\* after the other or at the same time, only one calls addFunds.
C35_CreditedOnce ==
  \A r1, r2 \in Requests :
    (Credited(reqs[r1]) /\ Credited(reqs[r2]) /\ reqs[r1].tx = reqs[r2].tx)
    => r1 = r2

\* request q is a processCryptoDeposit for a txHash that a stored
\* Transaction already has
Replayed(q) == q.kind = "cryptoDeposit" /\ HashTaken(txs, q.txHash, NoTx)

\* C36: processCryptoDeposit credits at most once for a txHash: a call for a
\* txHash that a Transaction already has takes no step that changes the
\* wallet, and it ends with an error.
C36_OncePerTxHash ==
  /\ [][\A r \in Requests :
          (Replayed(reqs[r]) /\ reqs'[r] # reqs[r]) => wallet' = wallet]_vars
  /\ [](\A r \in Requests : (Replayed(reqs[r]) /\ Done(r)) => reqs[r].err # "")

\* ------------------------------------------------------ investment claims
LockPeriodMessage == "Investments can only be cancelled after 7 days"

\* fewer than 7 full days have passed since the investment started
InsideLockPeriod(id) == now - investments[id].startDate < MinLockPeriod * TicksPerDay

\* C16: cancelInvestment on an active investment that started fewer than 7
\* full days ago is refused with the lock period message, and the step that
\* refuses it changes neither the wallet nor the transactions nor the
\* investments.
C16_LockPeriodActive ==
  [][\A r \in Requests :
       (/\ reqs[r].pc = "idle"
        /\ reqs'[r].kind = "cancelInvestment"
        /\ Found(reqs'[r].inv)
        /\ investments[reqs'[r].inv].status = "active"
        /\ InsideLockPeriod(reqs'[r].inv))
       => /\ reqs'[r].pc = "done"
          /\ reqs'[r].err = LockPeriodMessage
          /\ wallet' = wallet
          /\ txs' = txs
          /\ investments' = investments]_vars

\* a cancellation was refused half a day before the lock period ends, and
\* the investment is still active
C16_Witness ==
  \E r \in Requests :
    /\ reqs[r].kind = "cancelInvestment"
    /\ reqs[r].pc = "done"
    /\ reqs[r].err = LockPeriodMessage
    /\ investments[reqs[r].inv].status = "active"
    /\ now - investments[reqs[r].inv].startDate = MinLockPeriod * TicksPerDay - 1

\* the cancellation found an active investment whose lock period was over
PastLockPeriod(q) ==
  /\ q.kind = "cancelInvestment"
  /\ q.err \notin {"Active investment not found", LockPeriodMessage}

BelowPlanRules(q) ==
  \/ q.amount < minInvestment(q.plan)
  \/ q.duration < MinDuration
  \/ q.duration > MaxDuration

\* C18: a createInvestment request whose amount is below the minimum of its
\* plan, or whose duration is outside 7 .. 720 days, is rejected at once, and
\* it creates no Transaction, takes no lock and creates no Investment.
C18_PlanRules ==
  \A r \in Requests :
    (reqs[r].kind = "createInvestment" /\ BelowPlanRules(reqs[r]))
    => /\ reqs[r].pc = "done"
       /\ reqs[r].err # ""
       /\ reqs[r].tx = NoTx
       /\ ~reqs[r].lockOk
       /\ reqs[r].inv = 0

\* C19: a validated createInvestment for more than the wallet's spendable
\* USD is refused with "Insufficient funds" in a step that changes nothing;
\* the step in which a createInvestment locks its funds raises the locked USD
\* by exactly the amount and leaves the balance alone; and a createInvestment
\* that succeeded left an active Investment linked to its investment
\* Transaction.
C19_CreateInvestment ==
  /\ [][\A r \in Requests :
          (/\ reqs[r].pc = "idle"
           /\ reqs'[r].kind = "createInvestment"
           /\ investmentValidation(reqs'[r].plan, reqs'[r].amount, reqs'[r].duration)
           /\ stored
           /\ getAvailableBalance(wallet, "USD") < reqs'[r].amount)
          => /\ reqs'[r].pc = "done"
             /\ reqs'[r].err = "Insufficient funds"
             /\ wallet' = wallet
             /\ txs' = txs
             /\ investments' = investments]_vars
  /\ [][\A r \in Requests :
          (reqs[r].pc = "ci_lock" /\ reqs'[r].pc = "ci_create")
          => /\ wallet'.lockedBalances["USD"] =
                  Plus(wallet.lockedBalances["USD"], reqs[r].amount)
             /\ wallet'.balances["USD"] = wallet.balances["USD"]]_vars
  /\ [](\A r \in Requests :
          (reqs[r].kind = "createInvestment" /\ reqs[r].pc = "done" /\ reqs[r].err = "")
          => /\ Found(reqs[r].inv)
             /\ investments[reqs[r].inv].tx = reqs[r].tx
             /\ investments[reqs[r].inv].amount = reqs[r].amount
             /\ txs[reqs[r].tx].type = "investment")

Refunded(q) ==
  /\ q.kind = "cancelInvestment"
  /\ \/ q.pc = "cn_tx" /\ q.unlockOks = 1
     \/ q.pc = "done" /\ q.err = "" /\ q.unlockOks = 1

InvestedThenCancelled(c, k) ==
  /\ reqs[c].kind = "createInvestment"
  /\ reqs[c].pc = "done"
  /\ reqs[c].err = ""
  /\ reqs[k].kind = "cancelInvestment"
  /\ reqs[k].pc = "done"
  /\ reqs[k].err = ""
  /\ reqs[k].inv = reqs[c].inv
  /\ \A r \in Requests \ {c, k} : reqs[r].pc = "idle"

RECURSIVE ActivePrincipals(_)
\* the principals of the first n investments that are active, added up
ActivePrincipals(n) ==
  IF n = 0 THEN Zero
  ELSE Sum(ActivePrincipals(n - 1),
           IF investments[n].status = "active" THEN investmentAmount(investments[n]) ELSE Zero)

Accrued == call.fn = "calculateInvestmentReturns" /\ call.returns.status # "calculation_error"

Compounds(inv) == inv.isCompounding /\ inv.compoundingFrequency # "none"

\* the base rates of the plans, in percent
PlanRatePercent(plan) ==
  CASE plan = "short" -> 8
    [] plan = "mid" -> 12
    [] plan = "long" -> 15

\* amount x rate x duration / 365
SimpleInterest(inv) == Rat(inv.amount * PlanRatePercent(inv.plan) * inv.duration, 36500)

\* C25: for an investment that does not compound, in plan short, mid or
\* long, the expectedProfit that calculateInvestmentReturns hands back is
\* amount x base rate x duration / 365 with base rate 8%, 12%, 15%; amount
\* 1000 in plan mid for 365 days gives 120.
C25_SimpleInterest ==
  (Accrued /\ ~Compounds(call.inv) /\ call.inv.plan \in Plans)
  => /\ call.returns.expectedProfit = SimpleInterest(call.inv)
     /\ (call.inv.amount = 1000 /\ call.inv.plan = "mid" /\ call.inv.duration = 365)
        => call.returns.expectedProfit = Whole(120)

\* the returns of 1000 in plan mid for 365 days without compounding are in
C25_Witness ==
  /\ Accrued
  /\ ~Compounds(call.inv)
  /\ call.inv.amount = 1000
  /\ call.inv.plan = "mid"
  /\ call.inv.duration = 365
  /\ call.returns.expectedProfit = Whole(120)

\* n of the frequencies
CompoundsPerYear(frequency) ==
  CASE frequency = "daily" -> 365
    [] frequency = "weekly" -> 52
    [] frequency = "monthly" -> 12
    [] frequency = "quarterly" -> 4

\* amount x (1 + rate / n)^n - amount, to the 6 decimal places of the model
CompoundInterest(inv) ==
  LET n == CompoundsPerYear(inv.compoundingFrequency)
      r == ToFixed(Rat(PlanRatePercent(inv.plan), 100 * n))
  IN  Diff(Times(Whole(inv.amount), FromFixed(PowFixed(PowScale + r, n))),
           Whole(inv.amount))

\* C26: for an investment of 365 days in plan short, mid or long that
\* compounds daily, weekly, monthly or quarterly, expectedProfit is
\* amount x (1 + rate / n)^n - amount with n = 365, 52, 12, 4, and that is
\* strictly more than the simple interest amount x rate.
C26_CompoundInterest ==
  (/\ Accrued
   /\ call.inv.isCompounding
   /\ call.inv.compoundingFrequency \in CompoundingFrequencies
   /\ call.inv.duration = 365
   /\ call.inv.plan \in Plans)
  => /\ call.returns.expectedProfit = CompoundInterest(call.inv)
     /\ Less(SimpleInterest(call.inv), call.returns.expectedProfit)

\* the returns of 1000 in plan mid for 365 days, compounded monthly, are in:
\* 126.825 against 120
C26_Witness ==
  /\ Accrued
  /\ call.inv.isCompounding
  /\ call.inv.compoundingFrequency = "monthly"
  /\ call.inv.duration = 365
  /\ call.inv.plan = "mid"
  /\ call.inv.amount = 1000
  /\ call.returns.expectedProfit = Rat(126825, 1000)

\* ----------------------------------------------------------- price claims
\* the price feed failed while the request waited for it
FeedFailed(q) == q.kind = "getCryptoPrices" /\ q.pc = "done" /\ q.msg = "failed"

\* C29: when the call of the price feed fails, getCryptoPrices raises no
\* error: it returns the fallback prices of the coin ids that were asked for.
C29_FallbackPrices ==
  \A r \in Requests :
    FeedFailed(reqs[r])
    => /\ reqs[r].err = ""
       /\ DOMAIN reqs[r].prices \subseteq reqs[r].ids
       /\ \A id \in reqs[r].ids \cap {"bitcoin", "ethereum", "tether", "usd-coin"} :
            /\ id \in DOMAIN reqs[r].prices
            /\ reqs[r].prices[id] = fallbackData[id]

C29_Witness ==
  \E r \in Requests :
    /\ FeedFailed(reqs[r])
    /\ reqs[r].ids = {"bitcoin", "ethereum"}
    /\ reqs[r].err = ""
    /\ reqs[r].prices["bitcoin"].usd = 45000
    /\ reqs[r].prices["ethereum"].usd = 3000

\* ------------------------------------------------------------ read claims
\* a getTransaction request that has been answered
Answered(q) == q.kind = "getTransaction" /\ q.pc = "done" /\ isObjectId(q.id)

\* what the requester is told: status code, message and the document
Response(q) == [code |-> q.code, message |-> q.err, transaction |-> q.tx]

\* C23: getTransaction returns a transaction only if its userId is the
\* requester's; asked for a transaction of another user it answers not found,
\* with the very response it gives for an id that no transaction has.
C23_OwnTransactionsOnly ==
  \A r \in Requests :
    Answered(reqs[r])
    => /\ reqs[r].tx # NoTx
          => /\ reqs[r].tx = reqs[r].id
             /\ txs[reqs[r].tx].userId = reqs[r].user
       /\ (reqs[r].id \in DOMAIN txs /\ txs[reqs[r].id].userId = reqs[r].user)
          => Response(reqs[r]) = [code |-> 200, message |-> "", transaction |-> reqs[r].id]
       /\ (reqs[r].id \in DOMAIN txs /\ txs[reqs[r].id].userId # reqs[r].user)
          => Response(reqs[r]) =
               [code |-> 404, message |-> "Transaction not found", transaction |-> NoTx]
       /\ reqs[r].id \notin DOMAIN txs
          => Response(reqs[r]) =
               [code |-> 404, message |-> "Transaction not found", transaction |-> NoTx]

C23_Witness ==
  \E r1, r2 \in Requests :
    /\ Answered(reqs[r1])
    /\ Answered(reqs[r2])
    /\ reqs[r1].id \in DOMAIN txs
    /\ txs[reqs[r1].id].userId # reqs[r1].user
    /\ reqs[r2].id \notin DOMAIN txs
    /\ reqs[r1].code = 404
    /\ Response(reqs[r1]) = Response(reqs[r2])

PlatformRate(type, method) ==
  CASE type = "deposit" /\ method = "credit_card" -> 290
    [] type = "deposit" /\ method = "bank_transfer" -> 100
    [] type = "deposit" /\ method = "crypto" -> 10
    [] type = "withdrawal" /\ method = "bank_transfer" -> 200
    [] type = "withdrawal" /\ method = "crypto" -> 50
    [] OTHER -> 200

\* C28: the platform fee is the amount times the rate of the operation and
\* the method: 2.9%, 1% and 0.1% for a deposit by credit card, bank transfer
\* and crypto, 2% and 0.5% for a withdrawal by bank transfer and crypto, and
\* 2% for every other combination.
C28_PlatformFee ==
  call.fn = "calculateTransactionFee"
  => \A i \in 1 .. Len(call.fees) :
       call.fees[i].platformFee =
         Times(call.amount, Percent(PlatformRate(call.type, call.method)))

\* -------------------------------------------------- transaction claims
Terminal(status) == status \in {"completed", "failed", "cancelled"}

\* C6: once a Transaction is completed, failed or cancelled, no step changes
\* its status, its completion and cancellation timestamps or its
\* failureReason.
C6_TerminalIsFinal ==
  [][\A i \in DOMAIN txs :
       Terminal(txs[i].status) =>
         /\ txs'[i].status = txs[i].status
         /\ txs'[i].completedAt = txs[i].completedAt
         /\ txs'[i].cancelledAt = txs[i].cancelledAt
         /\ txs'[i].failureReason = txs[i].failureReason]_vars

\* C7: no two Transactions ever hold the same txHash, and the step in which
\* a create or a markAsCompleted is rejected for its txHash stores nothing.
C7_UniqueTxHash ==
  /\ [](\A i, j \in DOMAIN txs :
          (i # j /\ txs[i].txHash # "") => txs[i].txHash # txs[j].txHash)
  /\ [][\A r \in Requests :
          (reqs'[r].err = "E11000 duplicate key" /\ reqs[r].err # reqs'[r].err)
          => txs' = txs]_vars

\* a txHash that is already held was offered again, once to create and once
\* to markAsCompleted, and both were rejected
C7_Witness ==
  /\ \E r \in Requests :
       /\ reqs[r].kind \in {"create", "cryptoDeposit"}
       /\ reqs[r].err = "E11000 duplicate key"
  /\ \E r \in Requests :
       /\ reqs[r].kind = "markAsCompleted"
       /\ reqs[r].err = "E11000 duplicate key"

\* C8: every stored Transaction has netAmount = amount - networkFee -
\* platformFee, whatever netAmount was handed to create and after every save
\* that changed a fee.
C8_NetAmount ==
  \A i \in DOMAIN txs :
    txs[i].netAmount = Minus(Minus(txs[i].amount, txs[i].networkFee), txs[i].platformFee)

\* a Transaction was created with fees and a netAmount other than the one
\* stored, and the fee of a stored Transaction was changed
C8_Witness ==
  /\ \E r \in Requests :
       /\ reqs[r].kind = "create"
       /\ Succeeded(r)
       /\ txs[reqs[r].tx].platformFee > 0
       /\ reqs[r].supplied # txs[reqs[r].tx].netAmount
  /\ \E r \in Requests :
       /\ reqs[r].kind = "setFee"
       /\ txs[reqs[r].tx].networkFee = 1
       /\ txs[reqs[r].tx].netAmount # txs[reqs[r].tx].amount

\* ------------------------------------------------- ledger method claims

\* C1: after every addFunds, deductFunds, lockFunds or unlockFunds call with
\* a positive amount, successful or failed, every currency of the wallet has
\* available >= locked >= 0.
C1_AvailableCoversLocked ==
  \A c \in Currencies :
    /\ doc.balances[c] >= doc.lockedBalances[c]
    /\ doc.lockedBalances[c] >= 0

\* C9: lockFunds(amount, currency) followed immediately by unlockFunds of the
\* same amount and currency leaves the balances and locked balances of every
\* currency equal to their values before the lock.
C9_LockUnlockRoundTrip ==
  last.afterLock => (last.ok /\ doc = last.lockPre)

\* C10: deductFunds(amount, currency) fails with "Insufficient funds" and
\* changes nothing unless available - locked >= amount; otherwise it succeeds,
\* the currency's balance becomes balance - amount, and the locked balances
\* and the balances of the other currencies are unchanged.
C10_DeductFunds ==
  last.op = "deductFunds" =>
    LET p == last.pre
        c == last.currency
        a == last.amount
    IN  IF Minus(p.balances[c], p.lockedBalances[c]) >= a
        THEN /\ last.ok
             /\ doc.balances[c] = Minus(p.balances[c], a)
             /\ doc.lockedBalances = p.lockedBalances
             /\ \A d \in Currencies \ {c} : doc.balances[d] = p.balances[d]
        ELSE /\ ~last.ok
             /\ doc = p

\* a deduction succeeded on a currency with funds locked, next to another
\* currency that holds a balance
C10_Witness ==
  /\ last.op = "deductFunds"
  /\ last.ok
  /\ last.pre.lockedBalances[last.currency] > 0
  /\ \E d \in Currencies \ {last.currency} : doc.balances[d] > 0

\* C11: lockFunds(amount, currency) fails with "Insufficient funds" and
\* changes nothing unless available - locked >= amount; otherwise it succeeds,
\* the wallet as saved has the currency's locked balance at locked + amount,
\* and the balances and the other locked balances are unchanged.
C11_LockFunds ==
  last.op = "lockFunds" =>
    LET p == last.pre
        c == last.currency
        a == last.amount
    IN  IF Minus(p.balances[c], p.lockedBalances[c]) >= a
        THEN /\ last.ok
             /\ Persisted(doc).lockedBalances[c] = Plus(p.lockedBalances[c], a)
             /\ doc.balances = p.balances
             /\ \A d \in Currencies \ {c} : doc.lockedBalances[d] = p.lockedBalances[d]
        ELSE /\ ~last.ok
             /\ doc = p

\* C12: unlockFunds(amount, currency) fails with "Cannot unlock more funds
\* than are locked" and changes nothing unless locked >= amount; otherwise it
\* succeeds, the wallet as saved has the currency's locked balance at
\* locked - amount, not below zero, and the balances and the other locked
\* balances are unchanged.
C12_UnlockFunds ==
  last.op = "unlockFunds" =>
    LET p == last.pre
        c == last.currency
        a == last.amount
    IN  IF p.lockedBalances[c] >= a
        THEN /\ last.ok
             /\ Persisted(doc).lockedBalances[c] = Minus(p.lockedBalances[c], a)
             /\ doc.lockedBalances[c] >= 0
             /\ doc.balances = p.balances
             /\ \A d \in Currencies \ {c} : doc.lockedBalances[d] = p.lockedBalances[d]
        ELSE /\ ~last.ok
             /\ doc = p

\* ------------------------------------------------- authService.checkRateLimit
\* In the specification of the rate limiter one step of the clock is five
\* minutes, so the window of 15 * 60 * 1000 ms is three steps.
windowMs == 3

\* maxRequests is 100 in the source; the model keeps the limit small so that
\* a key can be asked for more often than the limit allows
maxRequests == 2

\* the while loop that drops the requests older than the window
RECURSIVE clean(_, _)
clean(requests, windowStart) ==
  IF Len(requests) > 0 /\ requests[1] < windowStart
  THEN clean(Tail(requests), windowStart)
  ELSE requests

\* checkRateLimit(ip, endpoint) at Date.now() = date: rateLimits is the Map the
\* call creates, key the pair that `${ip}:${endpoint}` is made of
checkRateLimit(ip, endpoint, date) ==
  LET rateLimits == << >>
      key == <<ip, endpoint>>
      windowStart == date - windowMs
      created == IF key \in DOMAIN rateLimits
                 THEN rateLimits
                 ELSE (key :> << >>) @@ rateLimits
      requests == clean(created[key], windowStart)
  IN  IF Len(requests) >= maxRequests
      THEN [allowed |-> FALSE, remaining |-> 0, reset |-> requests[1] + windowMs]
      ELSE LET pushed == Append(requests, date)
           IN  [allowed |-> TRUE, remaining |-> maxRequests - Len(pushed),
                reset |-> pushed[1] + windowMs]

\* one call of checkRateLimit; what it was asked and what it returned is kept
CheckRateLimit ==
  /\ call.fn = "checkRateLimit"
  /\ Len(call.results) <= maxRequests
  /\ \E ip \in {"10.0.0.1", "10.0.0.2"}, endpoint \in {"/login", "/register"} :
       call' = [call EXCEPT !.results =
                  Append(@, [key |-> <<ip, endpoint>>, at |-> now,
                             result |-> checkRateLimit(ip, endpoint, now)])]
  /\ UNCHANGED <<cache, now, stored, doc, last, wallet, txs, investments, reqs>>

RateLimitInit ==
  /\ doc = NewWallet
  /\ last = NoCall
  /\ wallet = NewWallet
  /\ stored = FALSE
  /\ now = 0
  /\ call = [fn |-> "checkRateLimit", results |-> << >>]
  /\ cache = NoCache
  /\ txs = << >>
  /\ investments = << >>
  /\ reqs = [r \in Requests |-> Idle]

NextRateLimit ==
  \/ Tick
  \/ CheckRateLimit

SpecRateLimit == RateLimitInit /\ [][NextRateLimit]_vars

\* the calls up to the i-th that were allowed for the key of the i-th and lie
\* in the window that ends with the i-th
AllowedInWindow(i) ==
  {j \in 1 .. i : /\ call.results[j].key = call.results[i].key
                  /\ call.results[j].result.allowed
                  /\ call.results[j].at >= call.results[i].at - windowMs}

\* C38: for every key of ip and endpoint, at most maxRequests calls of
\* checkRateLimit are allowed within any window of windowMs: once maxRequests
\* calls were allowed in the window, a further call for the key returns
\* allowed = false until the oldest allowed call has left the window.
C38_AtMostMaxRequests ==
  \A i \in 1 .. Len(call.results) : Cardinality(AllowedInWindow(i)) <= maxRequests

====
